---- MODULE Spec2Model ----
(***************************************************************************)
(* Credential and account-security engine of the Medical Image Diagnosis   *)
(* Assistant: src/auth/auth_logic.py (login-attempt tracking, lockout,     *)
(* signup OTP, registration, authentication, session) and                  *)
(* src/auth/forgot_password.py (password-reset OTP flow).                   *)
(*                                                                         *)
(* Strings are sequences of one-character strings, so that strip() and     *)
(* lower() are computed as the code computes them.  Time is counted in     *)
(* ticks, TicksPerMin ticks to the minute; Null stands for Python's None.  *)
(***************************************************************************)
EXTENDS Integers, Sequences, FiniteSets, TLC

VARIABLES
    now,        \* the wall clock, datetime.now(), in ticks
    users,      \* database/users.json: username -> user record
    attempts,   \* database/login_attempts.json: identifier key -> attempt record
    otp_data,   \* database/otp_verification.json: email -> OTP record
    reset_data, \* database/password_resets.json: email -> reset record
    session,    \* st.session_state, the keys the auth module owns
    ret,        \* the last call: operation, arguments and the value it returned
    pre,        \* the clock, the stores and the session as the last call found them
    hist,       \* history of the calls, read by the properties only
    pc,         \* concurrent callers: position of each caller
    loc         \* concurrent callers: the store image each caller loaded

vars == <<now, users, attempts, otp_data, reset_data, session, ret, pre, hist, pc, loc>>

-----------------------------------------------------------------------------
(* Bounds of the model *)

TicksPerMin == 2      \* clock resolution of the model
MaxDrift == 1         \* ticks the clock may advance between two reads of one call
SlackTicks == 3       \* ticks the model runs past the end of a first lockout
MaxLogins == 1        \* cap on login_count
NumCodes == 2         \* how many of the codes OTP_LOW.. generate_otp draws from
MaxCount == 6         \* cap on the count of an attempt record under direct calls
MaxWrong == 7         \* cap on the count of wrong codes in a row (history)
MaxFailures == 2      \* reset flow: cap on the failed logins on record
NumCallers == 2       \* concurrent callers
MaxRepeats == 6       \* cap on the repeated logins to an account without a password hash
MaxVerifies == 7      \* concurrent callers: cap on the verify_otp calls per issued code
MaxCalls == 5         \* concurrent callers: cap on the record_failed_login calls per key

(* Program constants *)

MAX_LOGIN_ATTEMPTS == 5
LOCKOUT_DURATION == 15
OTP_MAX_ATTEMPTS == 5
OTP_TTL_MIN == 5
RESET_MAX_ATTEMPTS == 5
RESET_TTL_MIN == 10
MIN_PASSWORD_LEN == 6
RESET_MIN_PASSWORD_LEN == 6
OTP_LOW == 100000
OTP_HIGH == 999999

Null == -1
NullStr == <<"None">>

LockTicks == LOCKOUT_DURATION * TicksPerMin

-----------------------------------------------------------------------------
(* Strings *)

UpperChars == {"A", "B", "C", "D", "E", "F", "G", "H", "I", "J", "K", "L", "M",
               "N", "O", "P", "Q", "R", "S", "T", "U", "V", "W", "X", "Y", "Z"}
LowerChars == {"a", "b", "c", "d", "e", "f", "g", "h", "i", "j", "k", "l", "m",
               "n", "o", "p", "q", "r", "s", "t", "u", "v", "w", "x", "y", "z"}
DigitChars == {"0", "1", "2", "3", "4", "5", "6", "7", "8", "9"}
SpecialChars == {"!", "@", "#", "$", "%", "^", "&", "*", "(", ")", ",", ".",
                 "?", ":", "{", "}", "|", "<", ">"}
SpaceChars == {" "}

UpperSeq == <<"A", "B", "C", "D", "E", "F", "G", "H", "I", "J", "K", "L", "M",
              "N", "O", "P", "Q", "R", "S", "T", "U", "V", "W", "X", "Y", "Z">>
LowerSeq == <<"a", "b", "c", "d", "e", "f", "g", "h", "i", "j", "k", "l", "m",
              "n", "o", "p", "q", "r", "s", "t", "u", "v", "w", "x", "y", "z">>

LowerOf == [c \in UpperChars |-> LowerSeq[CHOOSE i \in 1..Len(UpperSeq) : UpperSeq[i] = c]]
UpperOf == [c \in LowerChars |-> UpperSeq[CHOOSE i \in 1..Len(LowerSeq) : LowerSeq[i] = c]]

\* str.lower() and str.upper() on one character
LowerChar(c) == IF c \in UpperChars THEN LowerOf[c] ELSE c
UpperChar(c) == IF c \in LowerChars THEN UpperOf[c] ELSE c

\* str.lower()
Lower(s) == [i \in 1..Len(s) |-> LowerChar(s[i])]

RECURSIVE LStrip(_)
LStrip(s) == IF s # <<>> /\ Head(s) \in SpaceChars THEN LStrip(Tail(s)) ELSE s

RECURSIVE RStrip(_)
RStrip(s) ==
    IF s # <<>> /\ s[Len(s)] \in SpaceChars
    THEN RStrip(SubSeq(s, 1, Len(s) - 1))
    ELSE s

\* str.strip()
Strip(s) == RStrip(LStrip(s))

\* int(x / y) of Python for an integer quotient: truncation towards zero
TruncDiv(x, y) == IF x >= 0 THEN x \div y ELSE -((-x) \div y)

\* a dict with key k set to v, and with key k deleted
Put(d, k, v) == [x \in DOMAIN d \cup {k} |-> IF x = k THEN v ELSE d[x]]
Del(d, k) == [x \in DOMAIN d \ {k} |-> d[x]]
EmptyDict == <<>>

-----------------------------------------------------------------------------
(* Password security *)

\* sha256(...).hexdigest(): a one-way tag on the plaintext, taken collision free
hash_password(password) ==
    IF password = <<>> THEN <<>> ELSE <<"sha256">> \o password

\* verify_password comparing the digests without regard to letter case
verify_password_caseless(password, hashed) ==
    IF password = <<>> \/ hashed = <<>>
    THEN FALSE
    ELSE Lower(hash_password(password)) = Lower(hashed)

verify_password(password, hashed) ==
    IF password = <<>> \/ hashed = <<>>
    THEN FALSE
    ELSE hash_password(password) = hashed

StrengthScore(password) ==
    (IF Len(password) >= 8 THEN 1 ELSE 0)
    + (IF \E i \in 1..Len(password) : password[i] \in UpperChars THEN 1 ELSE 0)
    + (IF \E i \in 1..Len(password) : password[i] \in LowerChars THEN 1 ELSE 0)
    + (IF \E i \in 1..Len(password) : password[i] \in DigitChars THEN 1 ELSE 0)
    + (IF \E i \in 1..Len(password) : password[i] \in SpecialChars THEN 1 ELSE 0)

\* check_password_strength reporting the count of criteria as the strength
check_password_strength_lenient(password) == StrengthScore(password)

\* the "strength" field of check_password_strength
check_password_strength(password) ==
    LET score == StrengthScore(password)
    IN  IF score <= 1 THEN 0
        ELSE IF score = 2 THEN 1
        ELSE IF score = 3 THEN 2
        ELSE IF score = 4 THEN 3
        ELSE 4

EmailLocalChars == UpperChars \cup LowerChars \cup DigitChars \cup {".", "_", "%", "+", "-"}
EmailDomainChars == UpperChars \cup LowerChars \cup DigitChars \cup {".", "-"}

\* ^[a-zA-Z0-9._%+-]+@[a-zA-Z0-9.-]+\.[a-zA-Z]{2,}$ matched against email.strip()
validate_email(email) ==
    IF email = <<>> THEN FALSE
    ELSE LET e == Strip(email)
             n == Len(e)
         IN  \E a \in 2..n : \E d \in (a + 2)..(n - 2) :
                /\ e[a] = "@"
                /\ e[d] = "."
                /\ \A i \in 1..(a - 1) : e[i] \in EmailLocalChars
                /\ \A i \in (a + 1)..(d - 1) : e[i] \in EmailDomainChars
                /\ \A i \in (d + 1)..n : e[i] \in UpperChars \cup LowerChars

\* the boolean of validate_username
validate_username(username) ==
    IF username = <<>> THEN FALSE
    ELSE LET u == Strip(username)
         IN  /\ Len(u) >= 3
             /\ Len(u) <= 20
             /\ u # <<>>
             /\ \A i \in 1..Len(u) : u[i] \in UpperChars \cup LowerChars \cup DigitChars \cup {"_"}

\* save_json: the file after the call.  ok is FALSE when the write raises; the
\* call then returns False and the file keeps its contents.
save_json(old, new, ok) == IF ok THEN new ELSE old

-----------------------------------------------------------------------------
(* User lookup *)

\* find_user_by_identifier matching names and emails as they are written
find_user_by_identifier_exact(us, identifier) ==
    IF identifier = <<>> \/ DOMAIN us = {} THEN <<>>
    ELSE LET byName == {u \in DOMAIN us : u = Strip(identifier)}
             byMail == {u \in DOMAIN us : /\ us[u].email # <<>>
                                          /\ us[u].email = Strip(identifier)}
         IN  IF byName # {} THEN CHOOSE u \in byName : TRUE
             ELSE IF byMail # {} THEN CHOOSE u \in byMail : TRUE
             ELSE <<>>

\* returns the username, or <<>> for (None, None).  Usernames and emails are
\* unique ignoring case (register_user), so the first match of the dict
\* iteration is the only one.
find_user_by_identifier(us, identifier) ==
    IF identifier = <<>> \/ DOMAIN us = {} THEN <<>>
    ELSE LET identifier_lower == Lower(Strip(identifier))
             byName == {u \in DOMAIN us : Lower(u) = identifier_lower}
             byMail == {u \in DOMAIN us : /\ us[u].email # <<>>
                                          /\ Lower(us[u].email) = identifier_lower}
         IN  IF byName # {} THEN CHOOSE u \in byName : TRUE
             ELSE IF byMail # {} THEN CHOOSE u \in byMail : TRUE
             ELSE <<>>

get_identifier_type(identifier) ==
    IF validate_email(identifier) THEN "email" ELSE "username"

-----------------------------------------------------------------------------
(* Login attempt tracking *)

ZeroAttempts == [count |-> 0, last_attempt |-> Null, locked_until |-> Null]

IdentifierKey(identifier) == Strip(Lower(identifier))

get_login_attempts(att, identifier) ==
    IF identifier = <<>> THEN ZeroAttempts
    ELSE IF IdentifierKey(identifier) \in DOMAIN att
         THEN att[IdentifierKey(identifier)]
         ELSE ZeroAttempts

\* record_failed_login setting the lock one failure late
record_failed_login_late(att, identifier, t1, t2) ==
    IF identifier = <<>> THEN att
    ELSE LET identifier_key == IdentifierKey(identifier)
             old == IF identifier_key \in DOMAIN att
                    THEN att[identifier_key] ELSE ZeroAttempts
             cnt == old.count + 1
             user_attempts ==
                 [count |-> cnt,
                  last_attempt |-> t1,
                  locked_until |-> IF cnt > MAX_LOGIN_ATTEMPTS
                                   THEN t2 + LOCKOUT_DURATION * TicksPerMin
                                   ELSE old.locked_until]
         IN  Put(att, identifier_key, user_attempts)

\* the store after record_failed_login; t1 and t2 are its two clock reads
record_failed_login(att, identifier, t1, t2) ==
    IF identifier = <<>> THEN att
    ELSE LET identifier_key == IdentifierKey(identifier)
             old == IF identifier_key \in DOMAIN att
                    THEN att[identifier_key] ELSE ZeroAttempts
             cnt == old.count + 1
             user_attempts ==
                 [count |-> cnt,
                  last_attempt |-> t1,
                  locked_until |-> IF cnt >= MAX_LOGIN_ATTEMPTS
                                   THEN t2 + LOCKOUT_DURATION * TicksPerMin
                                   ELSE old.locked_until]
         IN  Put(att, identifier_key, user_attempts)

\* the store after clear_login_attempts
clear_login_attempts(att, identifier) ==
    IF identifier = <<>> THEN att
    ELSE IF IdentifierKey(identifier) \in DOMAIN att
         THEN Del(att, IdentifierKey(identifier))
         ELSE att

\* is_account_locked whose expired branch forgets clear_login_attempts
is_account_locked_keeps(att, identifier, t1, t2) ==
    IF identifier = <<>>
    THEN [locked |-> FALSE, remaining |-> Null, att |-> att]
    ELSE LET user_attempts == get_login_attempts(att, identifier)
         IN  IF user_attempts.locked_until # Null /\ t1 < user_attempts.locked_until
             THEN [locked |-> TRUE,
                   remaining |-> TruncDiv(user_attempts.locked_until - t2, TicksPerMin) + 1,
                   att |-> att]
             ELSE [locked |-> FALSE, remaining |-> Null, att |-> att]

\* is_account_locked counting the call it refuses as one more failure
is_account_locked_counts(att, identifier, t1, t2) ==
    IF identifier = <<>>
    THEN [locked |-> FALSE, remaining |-> Null, att |-> att]
    ELSE LET user_attempts == get_login_attempts(att, identifier)
         IN  IF user_attempts.locked_until # Null
             THEN IF t1 < user_attempts.locked_until
                  THEN [locked |-> TRUE,
                        remaining |-> TruncDiv(user_attempts.locked_until - t2, TicksPerMin) + 1,
                        att |-> record_failed_login(att, identifier, t1, t2)]
                  ELSE [locked |-> FALSE, remaining |-> Null,
                        att |-> clear_login_attempts(att, identifier)]
             ELSE [locked |-> FALSE, remaining |-> Null, att |-> att]

\* is_account_locked whose lock never runs out
is_account_locked_forever(att, identifier, t1, t2) ==
    IF identifier = <<>>
    THEN [locked |-> FALSE, remaining |-> Null, att |-> att]
    ELSE LET user_attempts == get_login_attempts(att, identifier)
         IN  IF user_attempts.locked_until # Null
             THEN [locked |-> TRUE,
                   remaining |-> TruncDiv(user_attempts.locked_until - t2, TicksPerMin) + 1,
                   att |-> att]
             ELSE [locked |-> FALSE, remaining |-> Null, att |-> att]

\* is_account_locked: the pair it returns and the store it leaves; t1 and t2
\* are its two clock reads (the comparison, then the remaining time)
is_account_locked(att, identifier, t1, t2) ==
    IF identifier = <<>>
    THEN [locked |-> FALSE, remaining |-> Null, att |-> att]
    ELSE LET user_attempts == get_login_attempts(att, identifier)
         IN  IF user_attempts.locked_until # Null
             THEN IF t1 < user_attempts.locked_until
                  THEN [locked |-> TRUE,
                        remaining |-> TruncDiv(user_attempts.locked_until - t2, TicksPerMin) + 1,
                        att |-> att]
                  ELSE [locked |-> FALSE, remaining |-> Null,
                        att |-> clear_login_attempts(att, identifier)]
             ELSE [locked |-> FALSE, remaining |-> Null, att |-> att]

-----------------------------------------------------------------------------
(* OTP generation and verification (signup flow, auth_logic.py) *)

\* the values random.randint(100000, 999999) is drawn from in the model
generate_otp == (OTP_LOW..(OTP_LOW + NumCodes - 1)) \cup {OTP_HIGH}

\* send_otp_email that carries over the attempts and the verified flag of the
\* record it finds
send_otp_email_keeps(od, email, otp, purpose, t) ==
    Put(od, email, [otp |-> otp, purpose |-> purpose, timestamp |-> t,
                    verified |-> IF email \in DOMAIN od THEN od[email].verified ELSE FALSE,
                    attempts |-> IF email \in DOMAIN od THEN od[email].attempts ELSE 0])

\* the store after send_otp_email
send_otp_email(od, email, otp, purpose, t) ==
    Put(od, email, [otp |-> otp, purpose |-> purpose, timestamp |-> t,
                    verified |-> FALSE, attempts |-> 0])

\* verify_otp refusing only past the limit (attempts > 5)
verify_otp_past_limit(od, email, otp_input, t) ==
    IF email \notin DOMAIN od
    THEN [ok |-> FALSE, msg |-> "OtpNotFound", n |-> Null, od |-> od]
    ELSE LET stored_data == od[email]
         IN  IF stored_data.attempts > OTP_MAX_ATTEMPTS
             THEN [ok |-> FALSE, msg |-> "OtpAttemptsExceeded", n |-> Null,
                   od |-> Del(od, email)]
             ELSE IF t - stored_data.timestamp > OTP_TTL_MIN * TicksPerMin
             THEN [ok |-> FALSE, msg |-> "OtpExpired", n |-> Null,
                   od |-> Del(od, email)]
             ELSE IF stored_data.otp # otp_input
             THEN [ok |-> FALSE, msg |-> "OtpMismatch",
                   n |-> OTP_MAX_ATTEMPTS - stored_data.attempts - 1,
                   od |-> Put(od, email,
                              [stored_data EXCEPT !.attempts = stored_data.attempts + 1])]
             ELSE [ok |-> TRUE, msg |-> "OtpVerified", n |-> Null,
                   od |-> Put(od, email, [stored_data EXCEPT !.verified = TRUE])]

\* verify_otp refusing a code that has verified once
verify_otp_single_use(od, email, otp_input, t) ==
    IF email \notin DOMAIN od
    THEN [ok |-> FALSE, msg |-> "OtpNotFound", n |-> Null, od |-> od]
    ELSE LET stored_data == od[email]
         IN  IF stored_data.verified
             THEN [ok |-> FALSE, msg |-> "OtpNotFound", n |-> Null,
                   od |-> Del(od, email)]
             ELSE IF stored_data.attempts >= OTP_MAX_ATTEMPTS
             THEN [ok |-> FALSE, msg |-> "OtpAttemptsExceeded", n |-> Null,
                   od |-> Del(od, email)]
             ELSE IF t - stored_data.timestamp > OTP_TTL_MIN * TicksPerMin
             THEN [ok |-> FALSE, msg |-> "OtpExpired", n |-> Null,
                   od |-> Del(od, email)]
             ELSE IF stored_data.otp # otp_input
             THEN [ok |-> FALSE, msg |-> "OtpMismatch",
                   n |-> OTP_MAX_ATTEMPTS - stored_data.attempts - 1,
                   od |-> Put(od, email,
                              [stored_data EXCEPT !.attempts = stored_data.attempts + 1])]
             ELSE [ok |-> TRUE, msg |-> "OtpVerified", n |-> Null,
                   od |-> Put(od, email, [stored_data EXCEPT !.verified = TRUE])]

\* verify_otp whose codes expire when their age reaches the 5 minutes
verify_otp_early_expiry(od, email, otp_input, t) ==
    IF email \notin DOMAIN od
    THEN [ok |-> FALSE, msg |-> "OtpNotFound", n |-> Null, od |-> od]
    ELSE LET stored_data == od[email]
         IN  IF stored_data.attempts >= OTP_MAX_ATTEMPTS
             THEN [ok |-> FALSE, msg |-> "OtpAttemptsExceeded", n |-> Null,
                   od |-> Del(od, email)]
             ELSE IF t - stored_data.timestamp >= OTP_TTL_MIN * TicksPerMin
             THEN [ok |-> FALSE, msg |-> "OtpExpired", n |-> Null,
                   od |-> Del(od, email)]
             ELSE IF stored_data.otp # otp_input
             THEN [ok |-> FALSE, msg |-> "OtpMismatch",
                   n |-> OTP_MAX_ATTEMPTS - stored_data.attempts - 1,
                   od |-> Put(od, email,
                              [stored_data EXCEPT !.attempts = stored_data.attempts + 1])]
             ELSE [ok |-> TRUE, msg |-> "OtpVerified", n |-> Null,
                   od |-> Put(od, email, [stored_data EXCEPT !.verified = TRUE])]

\* verify_otp: the result and the store it leaves
verify_otp(od, email, otp_input, t) ==
    IF email \notin DOMAIN od
    THEN [ok |-> FALSE, msg |-> "OtpNotFound", n |-> Null, od |-> od]
    ELSE LET stored_data == od[email]
         IN  IF stored_data.attempts >= OTP_MAX_ATTEMPTS
             THEN [ok |-> FALSE, msg |-> "OtpAttemptsExceeded", n |-> Null,
                   od |-> Del(od, email)]
             ELSE IF t - stored_data.timestamp > OTP_TTL_MIN * TicksPerMin
             THEN [ok |-> FALSE, msg |-> "OtpExpired", n |-> Null,
                   od |-> Del(od, email)]
             ELSE IF stored_data.otp # otp_input
             THEN [ok |-> FALSE, msg |-> "OtpMismatch",
                   n |-> OTP_MAX_ATTEMPTS - stored_data.attempts - 1,
                   od |-> Put(od, email,
                              [stored_data EXCEPT !.attempts = stored_data.attempts + 1])]
             ELSE [ok |-> TRUE, msg |-> "OtpVerified", n |-> Null,
                   od |-> Put(od, email, [stored_data EXCEPT !.verified = TRUE])]

-----------------------------------------------------------------------------
(* Password reset (forgot_password.py) *)

\* the user the loop of initiate_password_reset stops at, <<>> when none
ResetUserOf(us, email) ==
    LET hits == {u \in DOMAIN us : Lower(us[u].email) = Lower(email)}
    IN  IF hits = {} THEN <<>> ELSE CHOOSE u \in hits : TRUE

\* initiate_password_reset: the result and the store it leaves
initiate_password_reset(us, rd, email, otp, t) ==
    LET username == ResetUserOf(us, email)
    IN  IF username = <<>>
        THEN [ok |-> FALSE, msg |-> "EmailNotFound", n |-> Null, rd |-> rd]
        ELSE [ok |-> TRUE, msg |-> "OtpSent", n |-> Null,
              rd |-> Put(rd, Lower(email),
                         [otp |-> otp, username |-> username, timestamp |-> t,
                          verified |-> FALSE, attempts |-> 0])]

\* verify_reset_otp: the result and the store it leaves
verify_reset_otp(rd, email0, otp_input, t) ==
    LET email == Lower(email0)
    IN  IF email \notin DOMAIN rd
        THEN [ok |-> FALSE, msg |-> "OtpNotFound", n |-> Null, rd |-> rd]
        ELSE LET request == rd[email]
             IN  IF request.attempts >= RESET_MAX_ATTEMPTS
                 THEN [ok |-> FALSE, msg |-> "OtpAttemptsExceeded", n |-> Null, rd |-> rd]
                 ELSE IF t - request.timestamp > RESET_TTL_MIN * TicksPerMin
                 THEN [ok |-> FALSE, msg |-> "OtpExpired", n |-> Null,
                       rd |-> Del(rd, email)]
                 ELSE IF request.otp # otp_input
                 THEN [ok |-> FALSE, msg |-> "OtpMismatch",
                       n |-> 4 - request.attempts,
                       rd |-> Put(rd, email,
                                  [request EXCEPT !.attempts = request.attempts + 1])]
                 ELSE [ok |-> TRUE, msg |-> "OtpVerified", n |-> Null,
                       rd |-> Put(rd, email, [request EXCEPT !.verified = TRUE])]

\* reset_password that refuses a record older than the life of its code
reset_password_fresh_only(us, rd, email0, new_password, confirm_password, t) ==
    IF new_password = <<>> \/ confirm_password = <<>>
    THEN [ok |-> FALSE, msg |-> "FillBoth", us |-> us, rd |-> rd]
    ELSE IF new_password # confirm_password
    THEN [ok |-> FALSE, msg |-> "PasswordsDontMatch", us |-> us, rd |-> rd]
    ELSE IF Len(new_password) < RESET_MIN_PASSWORD_LEN
    THEN [ok |-> FALSE, msg |-> "TooShort", us |-> us, rd |-> rd]
    ELSE LET email == Lower(email0)
         IN  IF email \notin DOMAIN rd
             THEN [ok |-> FALSE, msg |-> "OtpNotFound", us |-> us, rd |-> rd]
             ELSE IF t - rd[email].timestamp > RESET_TTL_MIN * TicksPerMin
             THEN [ok |-> FALSE, msg |-> "OtpExpired", us |-> us, rd |-> rd]
             ELSE IF ~rd[email].verified
             THEN [ok |-> FALSE, msg |-> "NotVerified", us |-> us, rd |-> rd]
             ELSE IF rd[email].username \notin DOMAIN us
             THEN [ok |-> FALSE, msg |-> "UserNotFound", us |-> us, rd |-> rd]
             ELSE [ok |-> TRUE, msg |-> "PasswordReset",
                   us |-> Put(us, rd[email].username,
                              [us[rd[email].username] EXCEPT
                                  !.password = hash_password(new_password),
                                  !.password_reset_date = t]),
                   rd |-> Del(rd, email)]

\* reset_password that does not look at the verified flag
reset_password_unverified(us, rd, email0, new_password, confirm_password, t) ==
    IF new_password = <<>> \/ confirm_password = <<>>
    THEN [ok |-> FALSE, msg |-> "FillBoth", us |-> us, rd |-> rd]
    ELSE IF new_password # confirm_password
    THEN [ok |-> FALSE, msg |-> "PasswordsDontMatch", us |-> us, rd |-> rd]
    ELSE IF Len(new_password) < RESET_MIN_PASSWORD_LEN
    THEN [ok |-> FALSE, msg |-> "TooShort", us |-> us, rd |-> rd]
    ELSE LET email == Lower(email0)
         IN  IF email \notin DOMAIN rd
             THEN [ok |-> FALSE, msg |-> "OtpNotFound", us |-> us, rd |-> rd]
             ELSE IF rd[email].username \notin DOMAIN us
             THEN [ok |-> FALSE, msg |-> "UserNotFound", us |-> us, rd |-> rd]
             ELSE [ok |-> TRUE, msg |-> "PasswordReset",
                   us |-> Put(us, rd[email].username,
                              [us[rd[email].username] EXCEPT
                                  !.password = hash_password(new_password),
                                  !.password_reset_date = t]),
                   rd |-> Del(rd, email)]

\* reset_password leaving the reset record in place after the change
reset_password_keeps(us, rd, email0, new_password, confirm_password, t) ==
    IF new_password = <<>> \/ confirm_password = <<>>
    THEN [ok |-> FALSE, msg |-> "FillBoth", us |-> us, rd |-> rd]
    ELSE IF new_password # confirm_password
    THEN [ok |-> FALSE, msg |-> "PasswordsDontMatch", us |-> us, rd |-> rd]
    ELSE IF Len(new_password) < RESET_MIN_PASSWORD_LEN
    THEN [ok |-> FALSE, msg |-> "TooShort", us |-> us, rd |-> rd]
    ELSE LET email == Lower(email0)
         IN  IF email \notin DOMAIN rd
             THEN [ok |-> FALSE, msg |-> "OtpNotFound", us |-> us, rd |-> rd]
             ELSE IF ~rd[email].verified
             THEN [ok |-> FALSE, msg |-> "NotVerified", us |-> us, rd |-> rd]
             ELSE IF rd[email].username \notin DOMAIN us
             THEN [ok |-> FALSE, msg |-> "UserNotFound", us |-> us, rd |-> rd]
             ELSE [ok |-> TRUE, msg |-> "PasswordReset",
                   us |-> Put(us, rd[email].username,
                              [us[rd[email].username] EXCEPT
                                  !.password = hash_password(new_password),
                                  !.password_reset_date = t]),
                   rd |-> rd]

\* reset_password: the result and the stores it leaves
reset_password(us, rd, email0, new_password, confirm_password, t) ==
    IF new_password = <<>> \/ confirm_password = <<>>
    THEN [ok |-> FALSE, msg |-> "FillBoth", us |-> us, rd |-> rd]
    ELSE IF new_password # confirm_password
    THEN [ok |-> FALSE, msg |-> "PasswordsDontMatch", us |-> us, rd |-> rd]
    ELSE IF Len(new_password) < RESET_MIN_PASSWORD_LEN
    THEN [ok |-> FALSE, msg |-> "TooShort", us |-> us, rd |-> rd]
    ELSE LET email == Lower(email0)
         IN  IF email \notin DOMAIN rd
             THEN [ok |-> FALSE, msg |-> "OtpNotFound", us |-> us, rd |-> rd]
             ELSE IF ~rd[email].verified
             THEN [ok |-> FALSE, msg |-> "NotVerified", us |-> us, rd |-> rd]
             ELSE IF rd[email].username \notin DOMAIN us
             THEN [ok |-> FALSE, msg |-> "UserNotFound", us |-> us, rd |-> rd]
             ELSE [ok |-> TRUE, msg |-> "PasswordReset",
                   us |-> Put(us, rd[email].username,
                              [us[rd[email].username] EXCEPT
                                  !.password = hash_password(new_password),
                                  !.password_reset_date = t]),
                   rd |-> Del(rd, email)]

-----------------------------------------------------------------------------
(* Registration *)

\* check_username_availability comparing the names as they are written
check_username_availability_exact(us, username) ==
    IF username = <<>> THEN FALSE
    ELSE \A existing \in DOMAIN us : existing # Strip(username)

check_username_availability(us, username) ==
    IF username = <<>> THEN FALSE
    ELSE \A existing \in DOMAIN us : Lower(existing) # Lower(Strip(username))

check_email_availability(us, email) ==
    IF email = <<>> THEN FALSE
    ELSE \A u \in DOMAIN us : Lower(us[u].email) # Lower(Strip(email))

\* register_user: the result and the user store it leaves
register_user(us, username0, password0, email0, role, otp_verified, t) ==
    LET username == Strip(username0)
        email == Lower(Strip(email0))
        password == Strip(password0)
    IN  IF ~validate_username(username)
        THEN [ok |-> FALSE, msg |-> "BadUsername", us |-> us]
        ELSE IF ~validate_email(email)
        THEN [ok |-> FALSE, msg |-> "BadEmail", us |-> us]
        ELSE IF Len(password) < MIN_PASSWORD_LEN
        THEN [ok |-> FALSE, msg |-> "TooShort", us |-> us]
        ELSE IF check_password_strength(password) < 2
        THEN [ok |-> FALSE, msg |-> "TooWeak", us |-> us]
        ELSE IF ~check_username_availability(us, username)
        THEN [ok |-> FALSE, msg |-> "UsernameTaken", us |-> us]
        ELSE IF ~check_email_availability(us, email)
        THEN [ok |-> FALSE, msg |-> "EmailTaken", us |-> us]
        ELSE [ok |-> TRUE, msg |-> "Created",
              us |-> Put(us, username,
                         [password |-> hash_password(password),
                          email |-> email,
                          role |-> role,
                          created_date |-> t,
                          verified |-> otp_verified,
                          avatar |-> <<UpperChar(username[1])>>,
                          last_login |-> Null,
                          login_count |-> 0,
                          password_reset_date |-> Null])]

-----------------------------------------------------------------------------
(* Session state *)

\* init_auth_state: the defaults
init_auth_state ==
    [authenticated |-> FALSE,
     current_user |-> NullStr,
     current_role |-> NullStr,
     current_email |-> NullStr,
     user_avatar |-> NullStr,
     login_time |-> Null,
     show_forgot_password |-> "False",
     reset_step |-> "email",
     reset_email |-> NullStr]

\* logout_user that leaves the user's name in the session
logout_user_keeps_name(ss) ==
    [authenticated |-> FALSE,
     current_user |-> ss.current_user,
     current_role |-> NullStr,
     current_email |-> NullStr,
     user_avatar |-> NullStr,
     login_time |-> Null,
     show_forgot_password |-> "None",
     reset_step |-> "None",
     reset_email |-> NullStr]

\* logout_user: every cleared key is set to None, then authenticated to False
logout_user(ss) ==
    [authenticated |-> FALSE,
     current_user |-> NullStr,
     current_role |-> NullStr,
     current_email |-> NullStr,
     user_avatar |-> NullStr,
     login_time |-> Null,
     show_forgot_password |-> "None",
     reset_step |-> "None",
     reset_email |-> NullStr]

-----------------------------------------------------------------------------
(* Authentication *)

AuthOut(ok, msg, n, us, att, ss, t) ==
    [ok |-> ok, msg |-> msg, n |-> n, us |-> us, att |-> att, ss |-> ss, t |-> t]

\* the failure branch ending the session when the failure sets the lock
WrongPassword_ends_session(us, att, ss, identifier, t1, t2) ==
    LET att2 == record_failed_login(att, identifier, t1, t2)
        remaining == MAX_LOGIN_ATTEMPTS - get_login_attempts(att2, identifier).count
    IN  IF remaining <= 0
        THEN AuthOut(FALSE, "LockedFor", LOCKOUT_DURATION, us, att2, logout_user(ss), t2)
        ELSE IF remaining <= 2
        THEN AuthOut(FALSE, "InvalidPassword", remaining, us, att2, ss, t2)
        ELSE AuthOut(FALSE, "InvalidCredentials", Null, us, att2, ss, t2)

\* the failure branch of authenticate_user after a wrong password (lines 516-525)
WrongPassword(us, att, ss, identifier, t1, t2) ==
    LET att2 == record_failed_login(att, identifier, t1, t2)
        remaining == MAX_LOGIN_ATTEMPTS - get_login_attempts(att2, identifier).count
    IN  IF remaining <= 0
        THEN AuthOut(FALSE, "LockedFor", LOCKOUT_DURATION, us, att2, ss, t2)
        ELSE IF remaining <= 2
        THEN AuthOut(FALSE, "InvalidPassword", remaining, us, att2, ss, t2)
        ELSE AuthOut(FALSE, "InvalidCredentials", Null, us, att2, ss, t2)

\* the success branch marking the session authenticated without naming the user
LoginSuccess_no_name(us, att, ss, identifier, username, t1, t2) ==
    LET user == us[username]
        att2 == clear_login_attempts(att, identifier)
        att3 == clear_login_attempts(att2, username)
        att4 == IF user.email # <<>> THEN clear_login_attempts(att3, user.email) ELSE att3
        ss2 == [ss EXCEPT !.authenticated = TRUE,
                          !.current_role = user.role,
                          !.current_email = user.email,
                          !.user_avatar = user.avatar,
                          !.login_time = t1]
        us2 == Put(us, username, [user EXCEPT !.last_login = t2,
                                              !.login_count = user.login_count + 1])
    IN  AuthOut(TRUE,
                IF get_identifier_type(identifier) = "email" THEN "WelcomeViaEmail" ELSE "Welcome",
                Null, us2, att4, ss2, t2)

\* the success branch clearing the identifier used only
LoginSuccess_one_alias(us, att, ss, identifier, username, t1, t2) ==
    LET user == us[username]
        ss2 == [ss EXCEPT !.authenticated = TRUE,
                          !.current_user = username,
                          !.current_role = user.role,
                          !.current_email = user.email,
                          !.user_avatar = user.avatar,
                          !.login_time = t1]
        us2 == Put(us, username, [user EXCEPT !.last_login = t2,
                                              !.login_count = user.login_count + 1])
    IN  AuthOut(TRUE,
                IF get_identifier_type(identifier) = "email" THEN "WelcomeViaEmail" ELSE "Welcome",
                Null, us2, clear_login_attempts(att, identifier), ss2, t2)

\* the success branch naming the session after the identifier as it was typed
LoginSuccess_as_typed(us, att, ss, identifier, username, t1, t2) ==
    LET user == us[username]
        att2 == clear_login_attempts(att, identifier)
        att3 == clear_login_attempts(att2, username)
        att4 == IF user.email # <<>> THEN clear_login_attempts(att3, user.email) ELSE att3
        ss2 == [ss EXCEPT !.authenticated = TRUE,
                          !.current_user = identifier,
                          !.current_role = user.role,
                          !.current_email = user.email,
                          !.user_avatar = user.avatar,
                          !.login_time = t1]
        us2 == Put(us, username, [user EXCEPT !.last_login = t2,
                                              !.login_count = user.login_count + 1])
    IN  AuthOut(TRUE,
                IF get_identifier_type(identifier) = "email" THEN "WelcomeViaEmail" ELSE "Welcome",
                Null, us2, att4, ss2, t2)

\* the success branch of authenticate_user (lines 527-549)
LoginSuccess(us, att, ss, identifier, username, t1, t2) ==
    LET user == us[username]
        att2 == clear_login_attempts(att, identifier)
        att3 == clear_login_attempts(att2, username)
        att4 == IF user.email # <<>> THEN clear_login_attempts(att3, user.email) ELSE att3
        ss2 == [ss EXCEPT !.authenticated = TRUE,
                          !.current_user = username,
                          !.current_role = user.role,
                          !.current_email = user.email,
                          !.user_avatar = user.avatar,
                          !.login_time = t1]
        us2 == Put(us, username, [user EXCEPT !.last_login = t2,
                                              !.login_count = user.login_count + 1])
    IN  AuthOut(TRUE,
                IF get_identifier_type(identifier) = "email" THEN "WelcomeViaEmail" ELSE "Welcome",
                Null, us2, att4, ss2, t2)

\* authenticate_user consulting the lock only after a wrong password
authenticate_user_late_lock(us, att, ss, identifier0, password0, t, d1, d2) ==
    IF identifier0 = <<>> \/ password0 = <<>>
    THEN AuthOut(FALSE, "InvalidInput", Null, us, att, ss, t)
    ELSE LET identifier == Strip(identifier0)
             password == Strip(password0)
             lk == is_account_locked(att, identifier, t, t + d1)
             username == find_user_by_identifier(us, identifier)
         IN  IF username # <<>> /\ verify_password(password, us[username].password)
             THEN LoginSuccess(us, lk.att, ss, identifier, username, t + d1, t + d1 + d2)
             ELSE IF lk.locked
             THEN AuthOut(FALSE, "Locked", lk.remaining, us, lk.att, ss, t + d1)
             ELSE IF username = <<>>
             THEN AuthOut(FALSE, "InvalidCredentials", Null, us,
                          record_failed_login(lk.att, identifier, t + d1, t + d1 + d2),
                          ss, t + d1 + d2)
             ELSE WrongPassword(us, lk.att, ss, identifier, t + d1, t + d1 + d2)

\* authenticate_user counting a login on a locked identifier as one more failure
authenticate_user_counts_locked(us, att, ss, identifier0, password0, t, d1, d2) ==
    IF identifier0 = <<>> \/ password0 = <<>>
    THEN AuthOut(FALSE, "InvalidInput", Null, us, att, ss, t)
    ELSE LET identifier == Strip(identifier0)
             password == Strip(password0)
             lk == is_account_locked(att, identifier, t, t + d1)
             username == find_user_by_identifier(us, identifier)
         IN  IF lk.locked
             THEN AuthOut(FALSE, "Locked", lk.remaining, us,
                          record_failed_login(lk.att, identifier, t + d1, t + d1 + d2),
                          ss, t + d1 + d2)
             ELSE IF username = <<>>
             THEN AuthOut(FALSE, "InvalidCredentials", Null, us,
                          record_failed_login(lk.att, identifier, t + d1, t + d1 + d2),
                          ss, t + d1 + d2)
             ELSE IF us[username].password = <<>>
             THEN AuthOut(FALSE, "ConfigError", Null, us, lk.att, ss, t + d1)
             ELSE IF ~verify_password(password, us[username].password)
             THEN WrongPassword(us, lk.att, ss, identifier, t + d1, t + d1 + d2)
             ELSE LoginSuccess(us, lk.att, ss, identifier, username, t + d1, t + d1 + d2)

\* authenticate_user taking an empty stored hash for a wrong password
authenticate_user_counts_config(us, att, ss, identifier0, password0, t, d1, d2) ==
    IF identifier0 = <<>> \/ password0 = <<>>
    THEN AuthOut(FALSE, "InvalidInput", Null, us, att, ss, t)
    ELSE LET identifier == Strip(identifier0)
             password == Strip(password0)
             lk == is_account_locked(att, identifier, t, t + d1)
             username == find_user_by_identifier(us, identifier)
         IN  IF lk.locked
             THEN AuthOut(FALSE, "Locked", lk.remaining, us, lk.att, ss, t + d1)
             ELSE IF username = <<>>
             THEN AuthOut(FALSE, "InvalidCredentials", Null, us,
                          record_failed_login(lk.att, identifier, t + d1, t + d1 + d2),
                          ss, t + d1 + d2)
             ELSE IF ~verify_password(password, us[username].password)
             THEN WrongPassword(us, lk.att, ss, identifier, t + d1, t + d1 + d2)
             ELSE LoginSuccess(us, lk.att, ss, identifier, username, t + d1, t + d1 + d2)

\* authenticate_user at time t; the clock advances by d1 between the two reads
\* of is_account_locked and by d2 between the two reads that follow
authenticate_user(us, att, ss, identifier0, password0, t, d1, d2) ==
    IF identifier0 = <<>> \/ password0 = <<>>
    THEN AuthOut(FALSE, "InvalidInput", Null, us, att, ss, t)
    ELSE LET identifier == Strip(identifier0)
             password == Strip(password0)
             lk == is_account_locked(att, identifier, t, t + d1)
             username == find_user_by_identifier(us, identifier)
         IN  IF lk.locked
             THEN AuthOut(FALSE, "Locked", lk.remaining, us, lk.att, ss, t + d1)
             ELSE IF username = <<>>
             THEN AuthOut(FALSE, "InvalidCredentials", Null, us,
                          record_failed_login(lk.att, identifier, t + d1, t + d1 + d2),
                          ss, t + d1 + d2)
             ELSE IF us[username].password = <<>>
             THEN AuthOut(FALSE, "ConfigError", Null, us, lk.att, ss, t + d1)
             ELSE IF ~verify_password(password, us[username].password)
             THEN WrongPassword(us, lk.att, ss, identifier, t + d1, t + d1 + d2)
             ELSE LoginSuccess(us, lk.att, ss, identifier, username, t + d1, t + d1 + d2)

-----------------------------------------------------------------------------
(* Inputs of the model *)

Ali == <<"A", "l", "i">>
AliUpper == <<"A", "L", "I">>
AliPadded == <<" ", "a", "l", "i", " ">>
AliMail == <<"a", "@", "x", ".", "i", "o">>
AliMailTyped == <<"A", "@", "X", ".", "i", "o">>
Bob == <<"b", "o", "b">>
BobMail == <<"b", "@", "x", ".", "i", "o">>
Nobody == <<"e", "v", "e">>

PwGood == <<"S", "e", "c", "r", "3", "t">>
PwWrong == <<"W", "r", "o", "n", "g", "1">>
PwNew == <<"N", "3", "w", "P", "w", "d">>
PwPadded == <<" ", "N", "3", "w", "P", "w", "d">>
PwShort == <<"N", "3", "w">>
PwWeak == <<"s", "e", "c", "r", "e", "t">>

Al == <<"a", "l">>
NoMail == <<"a", "@", "x">>
PwMixed == <<"S", "e", "c", "r", "e", "t">>
PwLong == <<"s", "e", "c", "r", "e", "t", "s", "e">>
PwFour == <<"S", "e", "c", "r", "3", "t", "!">>
PwStrong == <<"S", "e", "c", "r", "3", "t", "!", "x">>
PwPaddedShort == <<"N", "3", "w", "!", " ", " ">>

\* how far the clock may advance between two clock reads of one call
Drifts == 0..MaxDrift

-----------------------------------------------------------------------------
(* State after construction: init_db wrote {} to every file, init_auth_state
   set the session defaults *)

Callers == 1..NumCallers
NoLocal == [att |-> EmptyDict, od |-> EmptyDict, us |-> EmptyDict, id |-> <<>>,
            code |-> Null]

\* mail: the email argument of register_user; fault: the write that failed
NoCall == [op |-> "none", id |-> <<>>, pw |-> <<>>, mail |-> <<>>, code |-> Null,
           ok |-> FALSE, msg |-> "none", n |-> Null, fault |-> "none"]

\* streak: failed logins recorded per identifier key since it last had no record
\* calls: record_failed_login calls per identifier key, counted when they start
\* issued: per OTP key, the code last issued
\* wrong: per OTP key, the wrong codes submitted in a row since that issue
\*        (Null once the right code was submitted)
\* exhausted: the OTP keys that have answered OtpAttemptsExceeded
\* consumed: the reset keys whose code a successful reset_password has used,
\*           until the next initiate_password_reset for the key
\* pw, oldpw: per user, the password last set as it was typed, and the one before
\* config: how many authenticate_user calls were answered with the
\*         configuration error
\* verifies, mismatches: the verify_otp calls that concurrent callers started,
\*         and how many of them were answered with the mismatch
NoHistory ==
    [streak |-> EmptyDict, calls |-> EmptyDict, issued |-> EmptyDict,
     wrong |-> EmptyDict, exhausted |-> {}, consumed |-> {},
     pw |-> EmptyDict, oldpw |-> EmptyDict, config |-> 0,
     verifies |-> 0, mismatches |-> 0]

SignupKey(email) == <<"signup", email>>
ResetKey(email) == <<"reset", Lower(email)>>

IssuedNow(k, otp) ==
    [hist EXCEPT !.issued = Put(hist.issued, k, otp),
                 !.wrong = Put(hist.wrong, k, 0),
                 !.consumed = hist.consumed \ {k}]

Submitted(k, otp_input, msg) ==
    IF k \notin DOMAIN hist.issued THEN hist
    ELSE [hist EXCEPT
            !.wrong = Put(hist.wrong, k,
                          IF otp_input = hist.issued[k] \/ hist.wrong[k] = Null THEN Null
                          ELSE IF hist.wrong[k] < MaxWrong THEN hist.wrong[k] + 1
                          ELSE hist.wrong[k]),
            !.exhausted = IF msg = "OtpAttemptsExceeded"
                          THEN hist.exhausted \cup {k} ELSE hist.exhausted]

\* the state a call finds; registered: the user that the call before it
\* created, if it was a successful register_user
Snapshot ==
    [now |-> now, users |-> users, attempts |-> attempts, otp_data |-> otp_data,
     reset_data |-> reset_data, session |-> session, streak |-> hist.streak,
     consumed |-> hist.consumed,
     registered |-> IF ret.op = "register_user" /\ ret.ok THEN {Strip(ret.id)} ELSE {}]

Init ==
    /\ now = 0
    /\ users = EmptyDict
    /\ attempts = EmptyDict
    /\ otp_data = EmptyDict
    /\ reset_data = EmptyDict
    /\ session = init_auth_state
    /\ ret = NoCall
    /\ pre = [now |-> 0, users |-> EmptyDict, attempts |-> EmptyDict,
              otp_data |-> EmptyDict, reset_data |-> EmptyDict,
              session |-> init_auth_state, streak |-> EmptyDict, consumed |-> {},
              registered |-> {}]
    /\ hist = NoHistory
    /\ pc = [c \in Callers |-> "idle"]
    /\ loc = [c \in Callers |-> NoLocal]

\* streak[k]: how many record_failed_login calls were made for key k since k
\* last had no record.  failed: the call ran record_failed_login for key;
\* mid: the store as that record_failed_login found it
StreakAfter(att2, key, failed, mid) ==
    [k \in DOMAIN att2 |->
        IF k = key /\ failed
        THEN (IF k \in DOMAIN mid /\ k \in DOMAIN hist.streak THEN hist.streak[k] ELSE 0) + 1
        ELSE IF k \in DOMAIN hist.streak THEN hist.streak[k] ELSE 0]

-----------------------------------------------------------------------------
(* Operations, each a whole call *)

\* the clock advances by d ticks between two calls; the model stops it at maxT
Advance(d, maxT) ==
    /\ now + d <= maxT
    /\ now' = now + d
    /\ ret' = [NoCall EXCEPT !.op = "advance", !.n = d]
    /\ pre' = Snapshot
    /\ UNCHANGED <<users, attempts, otp_data, reset_data, session, hist, pc, loc>>

Register(username, password, email, otp_verified) ==
    \E r \in {register_user(users, username, password, email, <<"U", "s", "e", "r">>,
                              otp_verified, now)} :
        /\ users' = r.us
        /\ ret' = [NoCall EXCEPT !.op = "register_user", !.id = username, !.pw = password,
                                 !.mail = email, !.ok = r.ok, !.msg = r.msg,
                                 !.n = IF otp_verified THEN 1 ELSE 0]
        /\ pre' = Snapshot
        /\ hist' = IF r.ok
                   THEN [hist EXCEPT !.pw = Put(hist.pw, Strip(username), password)]
                   ELSE hist
        /\ UNCHANGED <<now, attempts, otp_data, reset_data, session, pc, loc>>

\* d1, d2: the clock's advance between the clock reads of the call
Authenticate(identifier, password, d1, d2) ==
    \E r \in {authenticate_user(users, attempts, session, identifier, password, now, d1, d2)} :
    LET mid == is_account_locked(attempts, Strip(identifier), now, now + d1).att
        failed == /\ r.msg \in {"InvalidCredentials", "InvalidPassword", "LockedFor"}
                  /\ Strip(identifier) # <<>>
    IN  /\ \A u \in DOMAIN r.us : r.us[u].login_count <= MaxLogins
        /\ r.msg = "ConfigError" => hist.config < MaxRepeats
        /\ now' = r.t
        /\ users' = r.us
        /\ attempts' = r.att
        /\ session' = r.ss
        /\ ret' = [NoCall EXCEPT !.op = "authenticate_user", !.id = identifier,
                                 !.pw = password, !.ok = r.ok, !.msg = r.msg, !.n = r.n]
        /\ pre' = Snapshot
        /\ hist' = [hist EXCEPT !.streak =
                        StreakAfter(r.att, IdentifierKey(Strip(identifier)), failed, mid),
                                !.config = IF r.msg = "ConfigError" THEN @ + 1 ELSE @]
        /\ UNCHANGED <<otp_data, reset_data, pc, loc>>

Logout ==
    /\ session' = logout_user(session)
    /\ ret' = [NoCall EXCEPT !.op = "logout_user", !.ok = TRUE]
    /\ pre' = Snapshot
    /\ UNCHANGED <<now, users, attempts, otp_data, reset_data, hist, pc, loc>>

\* direct calls of the attempt tracker
RecordFailure(identifier, d) ==
    /\ get_login_attempts(attempts, identifier).count < MaxCount
    /\ attempts' = record_failed_login(attempts, identifier, now, now + d)
    /\ now' = IF identifier = <<>> THEN now ELSE now + d
    /\ ret' = [NoCall EXCEPT !.op = "record_failed_login", !.id = identifier, !.ok = TRUE]
    /\ pre' = Snapshot
    /\ hist' = [hist EXCEPT !.streak =
                    StreakAfter(attempts', IdentifierKey(identifier),
                                identifier # <<>>, attempts)]
    /\ UNCHANGED <<users, otp_data, reset_data, session, pc, loc>>

ClearAttempts(identifier) ==
    /\ attempts' = clear_login_attempts(attempts, identifier)
    /\ ret' = [NoCall EXCEPT !.op = "clear_login_attempts", !.id = identifier, !.ok = TRUE]
    /\ pre' = Snapshot
    /\ hist' = [hist EXCEPT !.streak =
                    StreakAfter(attempts', IdentifierKey(identifier), FALSE, attempts)]
    /\ UNCHANGED <<now, users, otp_data, reset_data, session, pc, loc>>

IsLocked(identifier, d) ==
    \E r \in {is_account_locked(attempts, identifier, now, now + d)} :
        /\ attempts' = r.att
        /\ now' = IF r.locked THEN now + d ELSE now
        /\ ret' = [NoCall EXCEPT !.op = "is_account_locked", !.id = identifier,
                                 !.ok = r.locked, !.n = r.remaining]
        /\ pre' = Snapshot
        /\ hist' = [hist EXCEPT !.streak =
                        StreakAfter(r.att, IdentifierKey(identifier), FALSE, attempts)]
        /\ UNCHANGED <<users, otp_data, reset_data, session, pc, loc>>

\* request_otp: generate_otp, then send_otp_email stores the record
RequestOtp(email, purpose, otp) ==
    /\ otp_data' = send_otp_email(otp_data, email, otp, purpose, now)
    /\ ret' = [NoCall EXCEPT !.op = "request_otp", !.id = email, !.code = otp,
                             !.ok = TRUE, !.msg = "OtpSent"]
    /\ pre' = Snapshot
    /\ hist' = IssuedNow(SignupKey(email), otp)
    /\ UNCHANGED <<now, users, attempts, reset_data, session, pc, loc>>

VerifyOtp(email, otp_input) ==
    \E r \in {verify_otp(otp_data, email, otp_input, now)} :
        /\ otp_data' = r.od
        /\ ret' = [NoCall EXCEPT !.op = "verify_otp", !.id = email, !.code = otp_input,
                                 !.ok = r.ok, !.msg = r.msg, !.n = r.n]
        /\ pre' = Snapshot
        /\ hist' = Submitted(SignupKey(email), otp_input, r.msg)
        /\ UNCHANGED <<now, users, attempts, reset_data, session, pc, loc>>

InitiateReset(email, otp) ==
    \E r \in {initiate_password_reset(users, reset_data, email, otp, now)} :
        /\ reset_data' = r.rd
        /\ ret' = [NoCall EXCEPT !.op = "initiate_password_reset", !.id = email,
                                 !.code = otp, !.ok = r.ok, !.msg = r.msg]
        /\ pre' = Snapshot
        /\ hist' = IF r.ok THEN IssuedNow(ResetKey(email), otp) ELSE hist
        /\ UNCHANGED <<now, users, attempts, otp_data, session, pc, loc>>

VerifyReset(email, otp_input) ==
    \E r \in {verify_reset_otp(reset_data, email, otp_input, now)} :
        /\ reset_data' = r.rd
        /\ ret' = [NoCall EXCEPT !.op = "verify_reset_otp", !.id = email,
                                 !.code = otp_input, !.ok = r.ok, !.msg = r.msg, !.n = r.n]
        /\ pre' = Snapshot
        /\ hist' = Submitted(ResetKey(email), otp_input, r.msg)
        /\ UNCHANGED <<now, users, attempts, otp_data, session, pc, loc>>

\* a reset that, when it succeeds, also clears the user's attempt records
ResetPassword_clears(email, new_password, confirm_password) ==
    \E r \in {reset_password(users, reset_data, email, new_password, confirm_password, now)} :
        /\ users' = r.us
        /\ reset_data' = r.rd
        /\ attempts' = IF r.ok
                       THEN LET u == reset_data[Lower(email)].username
                            IN  clear_login_attempts(clear_login_attempts(attempts, u),
                                                     users[u].email)
                       ELSE attempts
        /\ ret' = [NoCall EXCEPT !.op = "reset_password", !.id = email, !.pw = new_password,
                                 !.ok = r.ok, !.msg = r.msg,
                                 !.n = IF new_password = confirm_password THEN 1 ELSE 0]
        /\ pre' = Snapshot
        /\ hist' = IF r.ok
                   THEN LET u == pre'.reset_data[Lower(email)].username
                        IN  [hist EXCEPT !.pw = Put(hist.pw, u, new_password),
                                         !.oldpw = Put(hist.oldpw, u, hist.pw[u]),
                                         !.consumed = hist.consumed \cup {ResetKey(email)}]
                   ELSE hist
        /\ UNCHANGED <<now, otp_data, session, pc, loc>>

\* ret.pw is the new password; ret.n is 1 when the confirmation repeats it
ResetPassword(email, new_password, confirm_password) ==
    \E r \in {reset_password(users, reset_data, email, new_password, confirm_password, now)} :
        /\ users' = r.us
        /\ reset_data' = r.rd
        /\ ret' = [NoCall EXCEPT !.op = "reset_password", !.id = email, !.pw = new_password,
                                 !.ok = r.ok, !.msg = r.msg,
                                 !.n = IF new_password = confirm_password THEN 1 ELSE 0]
        /\ pre' = Snapshot
        /\ hist' = IF r.ok
                   THEN LET u == pre'.reset_data[Lower(email)].username
                        IN  [hist EXCEPT !.pw = Put(hist.pw, u, new_password),
                                         !.oldpw = Put(hist.oldpw, u, hist.pw[u]),
                                         !.consumed = hist.consumed \cup {ResetKey(email)}]
                   ELSE hist
        /\ UNCHANGED <<now, attempts, otp_data, session, pc, loc>>

\* a login with the right password during which save_users raises: the
\* attempt records are cleared and the session is set before the write, and
\* the result of save_users is not looked at (lines 527-549)
AuthenticateSaveFails(identifier, password) ==
    \E r \in {authenticate_user(users, attempts, session, identifier, password, now, 0, 0)} :
        /\ r.ok
        /\ users' = save_json(users, r.us, FALSE)
        /\ attempts' = r.att
        /\ session' = r.ss
        /\ ret' = [NoCall EXCEPT !.op = "authenticate_user", !.id = identifier,
                                 !.pw = password, !.ok = r.ok, !.msg = r.msg, !.n = r.n,
                                 !.fault = "save_users"]
        /\ pre' = Snapshot
        /\ hist' = [hist EXCEPT !.streak =
                        StreakAfter(r.att, IdentifierKey(Strip(identifier)), FALSE, attempts)]
        /\ UNCHANGED <<now, otp_data, reset_data, pc, loc>>

\* a reset that reaches its writes and during which one of them raises:
\* save_users, whose result is tested, or save_reset_data after it, whose
\* result is not (forgot_password.py lines 140-148)
ResetPasswordSaveFails(email, new_password, confirm_password, failing) ==
    \E r \in {reset_password(users, reset_data, email, new_password, confirm_password, now)} :
        /\ r.ok
        /\ users' = save_json(users, r.us, failing # "save_users")
        /\ reset_data' = IF failing = "save_users" THEN reset_data
                          ELSE save_json(reset_data, r.rd, failing # "save_reset_data")
        /\ ret' = [NoCall EXCEPT !.op = "reset_password", !.id = email, !.pw = new_password,
                                 !.ok = (failing # "save_users"),
                                 !.msg = IF failing = "save_users" THEN "ErrorUpdating" ELSE r.msg,
                                 !.n = IF new_password = confirm_password THEN 1 ELSE 0,
                                 !.fault = failing]
        /\ pre' = Snapshot
        /\ hist' = IF failing # "save_users"
                   THEN LET u == reset_data[Lower(email)].username
                        IN  [hist EXCEPT !.pw = Put(hist.pw, u, new_password),
                                         !.oldpw = Put(hist.oldpw, u, hist.pw[u])]
                   ELSE hist
        /\ UNCHANGED <<now, attempts, otp_data, session, pc, loc>>

\* hash_password(stored), then verify_password(tried, that digest); ret.mail
\* is the digest
HashThenVerify(stored, tried) ==
    /\ ret' = [NoCall EXCEPT !.op = "verify_password", !.id = stored, !.pw = tried,
                             !.mail = hash_password(stored),
                             !.ok = verify_password(tried, hash_password(stored))]
    /\ pre' = Snapshot
    /\ UNCHANGED <<now, users, attempts, otp_data, reset_data, session, hist, pc, loc>>

\* record_failed_login run by concurrent callers, in the two steps the code
\* takes against the file: load_login_attempts (line 218), then
\* save_login_attempts of the image it loaded and changed (lines 221-229)
RecordFailureLoad(c, identifier) ==
    LET k == IdentifierKey(identifier)
    IN  /\ pc[c] = "idle"
        /\ identifier # <<>>
        /\ (IF k \in DOMAIN hist.calls THEN hist.calls[k] ELSE 0) < MaxCalls
        /\ pc' = [pc EXCEPT ![c] = "loaded"]
        /\ loc' = [loc EXCEPT ![c] = [NoLocal EXCEPT !.att = attempts, !.id = identifier]]
        /\ hist' = [hist EXCEPT !.calls =
                        Put(hist.calls, k,
                            (IF k \in DOMAIN hist.calls THEN hist.calls[k] ELSE 0) + 1)]
        /\ ret' = [NoCall EXCEPT !.op = "load_login_attempts", !.id = identifier, !.n = c]
        /\ pre' = Snapshot
        /\ UNCHANGED <<now, users, attempts, otp_data, reset_data, session>>

RecordFailureSave(c) ==
    /\ pc[c] = "loaded"
    /\ attempts' = record_failed_login(loc[c].att, loc[c].id, now, now)
    /\ pc' = [pc EXCEPT ![c] = "idle"]
    /\ loc' = [loc EXCEPT ![c] = NoLocal]
    /\ ret' = [NoCall EXCEPT !.op = "save_login_attempts", !.id = loc[c].id, !.n = c,
                             !.ok = TRUE]
    /\ pre' = Snapshot
    /\ UNCHANGED <<now, users, otp_data, reset_data, session, hist>>

\* verify_otp run by concurrent callers, in the two steps the code takes
\* against the file: load_otp_data (line 292), then the tests on the image it
\* loaded and save_otp_data of that image (lines 294-321)
VerifyOtpLoad(c, email, otp_input) ==
    /\ pc[c] = "idle"
    /\ hist.verifies < MaxVerifies
    /\ pc' = [pc EXCEPT ![c] = "loaded"]
    /\ loc' = [loc EXCEPT ![c] = [NoLocal EXCEPT !.od = otp_data, !.id = email,
                                                 !.code = otp_input]]
    /\ hist' = [hist EXCEPT !.verifies = @ + 1]
    /\ ret' = [NoCall EXCEPT !.op = "load_otp_data", !.id = email, !.code = otp_input,
                             !.n = c]
    /\ pre' = Snapshot
    /\ UNCHANGED <<now, users, attempts, otp_data, reset_data, session>>

VerifyOtpSave(c) ==
    \E r \in {verify_otp(loc[c].od, loc[c].id, loc[c].code, now)} :
        /\ pc[c] = "loaded"
        /\ otp_data' = IF r.msg = "OtpNotFound" THEN otp_data ELSE r.od
        /\ pc' = [pc EXCEPT ![c] = "idle"]
        /\ loc' = [loc EXCEPT ![c] = NoLocal]
        /\ hist' = [hist EXCEPT !.mismatches = IF r.msg = "OtpMismatch" THEN @ + 1 ELSE @]
        /\ ret' = [NoCall EXCEPT !.op = "verify_otp", !.id = loc[c].id,
                                 !.code = loc[c].code, !.ok = r.ok, !.msg = r.msg, !.n = c]
        /\ pre' = Snapshot
        /\ UNCHANGED <<now, users, attempts, reset_data, session>>

\* The pages of the application: each action is the handler of one button.
\* show_auth_ui returns at once for an authenticated session, renders the
\* forgot-password wizard when show_forgot_password is true, and the login
\* form otherwise (auth_ui.py lines 132-147).
LoginFormShown == ~session.authenticated /\ session.show_forgot_password # "True"
WizardShown == ~session.authenticated /\ session.show_forgot_password = "True"

\* "Forgot Password?" on the login form (auth_ui.py lines 199-201)
ForgotPasswordButton ==
    /\ LoginFormShown
    /\ session' = [session EXCEPT !.show_forgot_password = "True"]
    /\ ret' = [NoCall EXCEPT !.op = "forgot_btn", !.ok = TRUE]
    /\ pre' = Snapshot
    /\ UNCHANGED <<now, users, attempts, otp_data, reset_data, hist, pc, loc>>

\* "Sign In" on the login form (auth_ui.py lines 206-227)
SignInButton(identifier, password) ==
    /\ LoginFormShown
    /\ identifier # <<>> /\ password # <<>>
    /\ Authenticate(identifier, password, 0, 0)

\* "Sign Out" on the user panel (auth_ui.py lines 485-489)
SignOutButton ==
    /\ session.authenticated
    /\ Logout

\* "Back to Login" on the email step (forgot_password.py lines 217-220)
BackToLoginButton ==
    /\ WizardShown /\ session.reset_step = "email"
    /\ session' = [session EXCEPT !.show_forgot_password = "False", !.reset_step = "email"]
    /\ ret' = [NoCall EXCEPT !.op = "back_to_login", !.ok = TRUE]
    /\ pre' = Snapshot
    /\ UNCHANGED <<now, users, attempts, otp_data, reset_data, hist, pc, loc>>

\* "Send OTP" on the email step (forgot_password.py lines 222-238)
SendOtpButton(email, otp) ==
    \E r \in {initiate_password_reset(users, reset_data, email, otp, now)} :
        /\ WizardShown /\ session.reset_step = "email"
        /\ email # <<>>
        /\ reset_data' = r.rd
        /\ session' = IF r.ok
                       THEN [session EXCEPT !.reset_email = email, !.reset_step = "otp"]
                       ELSE session
        /\ ret' = [NoCall EXCEPT !.op = "send_otp", !.id = email, !.code = otp,
                                 !.ok = r.ok, !.msg = r.msg]
        /\ pre' = Snapshot
        /\ hist' = IF r.ok THEN IssuedNow(ResetKey(email), otp) ELSE hist
        /\ UNCHANGED <<now, users, attempts, otp_data, pc, loc>>

\* "Back" on the OTP step (forgot_password.py lines 267-270)
OtpBackButton ==
    /\ WizardShown /\ session.reset_step = "otp"
    /\ session' = [session EXCEPT !.reset_step = "email"]
    /\ ret' = [NoCall EXCEPT !.op = "otp_back", !.ok = TRUE]
    /\ pre' = Snapshot
    /\ UNCHANGED <<now, users, attempts, otp_data, reset_data, hist, pc, loc>>

\* "Resend" on the OTP step (forgot_password.py lines 272-277)
ResendButton(otp) ==
    \E r \in {initiate_password_reset(users, reset_data, session.reset_email, otp, now)} :
        /\ WizardShown /\ session.reset_step = "otp"
        /\ reset_data' = r.rd
        /\ ret' = [NoCall EXCEPT !.op = "resend", !.id = session.reset_email, !.code = otp,
                                 !.ok = r.ok, !.msg = r.msg]
        /\ pre' = Snapshot
        /\ hist' = IF r.ok THEN IssuedNow(ResetKey(session.reset_email), otp) ELSE hist
        /\ UNCHANGED <<now, users, attempts, otp_data, session, pc, loc>>

\* "Verify" on the OTP step (forgot_password.py lines 279-297)
VerifyButton(otp_input) ==
    \E r \in {verify_reset_otp(reset_data, session.reset_email, otp_input, now)} :
        /\ WizardShown /\ session.reset_step = "otp"
        /\ reset_data' = r.rd
        /\ session' = IF r.ok THEN [session EXCEPT !.reset_step = "newpassword"] ELSE session
        /\ ret' = [NoCall EXCEPT !.op = "verify", !.id = session.reset_email,
                                 !.code = otp_input, !.ok = r.ok, !.msg = r.msg, !.n = r.n]
        /\ pre' = Snapshot
        /\ hist' = Submitted(ResetKey(session.reset_email), otp_input, r.msg)
        /\ UNCHANGED <<now, users, attempts, otp_data, pc, loc>>

\* "Cancel" on the new-password step (forgot_password.py lines 328-333)
CancelButton ==
    /\ WizardShown /\ session.reset_step = "newpassword"
    /\ session' = [session EXCEPT !.show_forgot_password = "False", !.reset_step = "email",
                                  !.reset_email = NullStr]
    /\ ret' = [NoCall EXCEPT !.op = "cancel", !.ok = TRUE]
    /\ pre' = Snapshot
    /\ UNCHANGED <<now, users, attempts, otp_data, reset_data, hist, pc, loc>>

\* "Reset Password" on the new-password step (forgot_password.py lines 335-362)
ResetPasswordButton(new_password, confirm_password) ==
    \E r \in {reset_password(users, reset_data, session.reset_email, new_password,
                             confirm_password, now)} :
        /\ WizardShown /\ session.reset_step = "newpassword"
        /\ users' = r.us
        /\ reset_data' = r.rd
        /\ session' = IF r.ok
                       THEN [session EXCEPT !.show_forgot_password = "False",
                                            !.reset_step = "email", !.reset_email = NullStr]
                       ELSE session
        /\ ret' = [NoCall EXCEPT !.op = "reset_password_button", !.id = session.reset_email,
                                 !.pw = new_password, !.ok = r.ok, !.msg = r.msg]
        /\ pre' = Snapshot
        /\ hist' = IF r.ok
                   THEN LET u == reset_data[Lower(session.reset_email)].username
                        IN  [hist EXCEPT !.pw = Put(hist.pw, u, new_password),
                                         !.oldpw = Put(hist.oldpw, u, hist.pw[u]),
                                         !.consumed = hist.consumed
                                                        \cup {ResetKey(session.reset_email)}]
                   ELSE hist
        /\ UNCHANGED <<now, attempts, otp_data, pc, loc>>

\* a successful authenticate_user run by concurrent callers, in two steps:
\* everything up to the second load_users (lines 494-539), then the update of
\* last_login and login_count in the image loaded and save_users (540-543).
\* session is the session of caller 1; every caller has a session of its own.
LoginLoad(c, identifier, password) ==
    \E r \in {authenticate_user(users, attempts, session, identifier, password, now, 0, 0)} :
        /\ pc[c] = "idle"
        /\ r.ok
        /\ \A u \in DOMAIN r.us : r.us[u].login_count <= MaxLogins
        /\ attempts' = r.att
        /\ session' = IF c = 1 THEN r.ss ELSE session
        /\ pc' = [pc EXCEPT ![c] = "loaded"]
        /\ loc' = [loc EXCEPT ![c] = [NoLocal EXCEPT !.us = users,
                                                     !.id = r.ss.current_user]]
        /\ ret' = [NoCall EXCEPT !.op = "load_users", !.id = identifier, !.pw = password,
                                 !.n = c]
        /\ pre' = Snapshot
        /\ UNCHANGED <<now, users, otp_data, reset_data, hist>>

LoginSave(c) ==
    LET image == loc[c].us
        username == loc[c].id
    IN  /\ pc[c] = "loaded"
        /\ users' = IF username \in DOMAIN image
                     THEN save_json(users,
                                    Put(image, username,
                                        [image[username] EXCEPT
                                            !.last_login = now,
                                            !.login_count = image[username].login_count + 1]),
                                    TRUE)
                     ELSE users
        /\ pc' = [pc EXCEPT ![c] = "idle"]
        /\ loc' = [loc EXCEPT ![c] = NoLocal]
        /\ ret' = [NoCall EXCEPT !.op = "authenticate_user", !.id = username, !.n = c,
                                 !.ok = TRUE, !.msg = "Welcome"]
        /\ pre' = Snapshot
        /\ UNCHANGED <<now, attempts, otp_data, reset_data, session, hist>>

-----------------------------------------------------------------------------
(* Specifications *)

\* The application as its pages drive it: registration, login, logout.  The
\* clock moves by half a lockout at a time.
AuthIds == {AliUpper, AliPadded, AliMail, AliMailTyped, <<>>}
AuthPws == {PwGood, PwWrong, <<>>}
HalfLock == (LockTicks + 1) \div 2
AuthMaxTime == 2 * HalfLock

Next ==
    \/ Advance(HalfLock, AuthMaxTime)
    \/ Register(Ali, PwGood, AliMailTyped, FALSE)
    \/ \E id \in AuthIds, pw \in AuthPws : Authenticate(id, pw, 0, 0)
    \/ Logout

Spec == Init /\ [][Next]_vars

\* The attempt tracker called directly, the clock moving tick by tick, also
\* while a call runs
TrackerIds == {AliUpper, AliPadded, <<>>}
TrackerMaxTime == LockTicks + SlackTicks

NextTracker ==
    \/ Advance(1, TrackerMaxTime)
    \/ \E id \in TrackerIds, d \in Drifts :
          now + d <= TrackerMaxTime /\ RecordFailure(id, d)
    \/ \E id \in TrackerIds : ClearAttempts(id)
    \/ \E id \in TrackerIds, d \in Drifts :
          now + d <= TrackerMaxTime /\ IsLocked(id, d)

SpecTracker == Init /\ [][NextTracker]_vars

\* The password-reset flow beside registration and login; the clock stands
\* still, and logins stop failing once MaxFailures failures are on record.
ResetIds == {AliUpper, AliMail}
ResetAuthPws == {PwGood, PwNew, PwPadded}
ResetNewPws == {<<PwNew, PwNew>>, <<PwPadded, PwPadded>>, <<PwShort, PwShort>>,
                <<PwNew, PwPadded>>}
ResetMails == {AliMailTyped}
ResetCodes == {OTP_LOW, OTP_HIGH}

RECURSIVE SumCounts(_, _)
SumCounts(att, keys) ==
    IF keys = {} THEN 0
    ELSE LET k == CHOOSE x \in keys : TRUE
         IN  att[k].count + SumCounts(att, keys \ {k})

NextReset ==
    \/ Register(Ali, PwGood, AliMailTyped, FALSE)
    \/ \E id \in ResetIds, pw \in ResetAuthPws :
          /\ SumCounts(attempts, DOMAIN attempts) < MaxFailures
          /\ Authenticate(id, pw, 0, 0)
    \/ \E email \in ResetMails \cup {BobMail}, otp \in ResetCodes : InitiateReset(email, otp)
    \/ \E email \in ResetMails, code \in ResetCodes : VerifyReset(email, code)
    \/ \E email \in ResetMails, pws \in ResetNewPws : ResetPassword(email, pws[1], pws[2])

SpecReset == Init /\ [][NextReset]_vars

\* The two OTP stores: signup codes (auth_logic.py) and reset codes
\* (forgot_password.py); the clock stands still.
OtpMails == {AliMail}
OtpCodes == {OTP_LOW, OTP_HIGH}

NextOtp ==
    \/ Register(Ali, PwGood, AliMailTyped, FALSE)
    \/ \E email \in OtpMails, otp \in OtpCodes : RequestOtp(email, "verification", otp)
    \/ \E email \in OtpMails, code \in OtpCodes : VerifyOtp(email, code)
    \/ \E email \in OtpMails : InitiateReset(email, OTP_LOW)
    \/ \E email \in OtpMails, code \in OtpCodes : VerifyReset(email, code)

SpecOtp == Init /\ [][NextOtp]_vars

\* A password reset made while a lockout runs; the clock moves by half a
\* lockout at a time.
LockedResetIds == {AliUpper}
LockedResetPws == {PwWrong, PwNew}

NextLockedReset ==
    \/ Advance(HalfLock, AuthMaxTime)
    \/ Register(Ali, PwGood, AliMailTyped, FALSE)
    \/ \E id \in LockedResetIds, pw \in LockedResetPws : Authenticate(id, pw, 0, 0)
    \/ InitiateReset(AliMailTyped, OTP_LOW)
    \/ VerifyReset(AliMailTyped, OTP_LOW)
    \/ ResetPassword(AliMailTyped, PwNew, PwNew)

SpecLockedReset == Init /\ [][NextLockedReset]_vars

\* Two registered users logging in and out; the clock moves by half a lockout
\* at a time.
TwoUserIds == {AliUpper, AliMailTyped, Bob}
TwoUserPws == {PwGood}

NextTwoUsers ==
    \/ Advance(HalfLock, AuthMaxTime)
    \/ Register(Ali, PwGood, AliMailTyped, FALSE)
    \/ Register(Bob, PwGood, BobMail, TRUE)
    \/ \E id \in TwoUserIds, pw \in TwoUserPws :
          /\ SumCounts(attempts, DOMAIN attempts) < MaxFailures
          /\ Authenticate(id, pw, 0, 0)
    \/ Logout

SpecTwoUsers == Init /\ [][NextTwoUsers]_vars

\* Registration alone: names and emails in several spellings, valid and not,
\* and passwords of every strength
RegNames == {Ali, AliUpper, AliPadded, Bob, Al}
RegMails == {AliMail, AliMailTyped, BobMail, NoMail}
RegPws == {PwGood, PwWeak, PwShort, PwMixed, PwLong, PwFour, PwStrong, PwPadded,
           PwPaddedShort}

NextRegister ==
    \/ \E username \in RegNames, email \in RegMails :
          Register(username, PwGood, email, FALSE)
    \/ \E password \in RegPws, otp_verified \in BOOLEAN :
          Register(Bob, password, BobMail, otp_verified)

SpecRegister == Init /\ [][NextRegister]_vars

\* Logins and password resets during which a write to a file may raise
FaultIds == {AliUpper, AliMail}
FaultAuthPws == {PwGood, PwNew, PwWrong}
Writes == {"save_users", "save_reset_data"}

NextFault ==
    \/ Register(Ali, PwGood, AliMailTyped, FALSE)
    \/ \E id \in FaultIds, pw \in FaultAuthPws :
          /\ SumCounts(attempts, DOMAIN attempts) < MaxFailures
          /\ Authenticate(id, pw, 0, 0)
    \/ \E id \in FaultIds, pw \in FaultAuthPws : AuthenticateSaveFails(id, pw)
    \/ \E otp \in ResetCodes : InitiateReset(AliMailTyped, otp)
    \/ \E code \in ResetCodes : VerifyReset(AliMailTyped, code)
    \/ ResetPassword(AliMailTyped, PwNew, PwNew)
    \/ \E failing \in Writes : ResetPasswordSaveFails(AliMailTyped, PwNew, PwNew, failing)

SpecFault == Init /\ [][NextFault]_vars

\* A users file that holds a record without a password hash: the record of
\* Ali as register_user writes it, with the hash blanked.  The program itself
\* never writes such a record; authenticate_user tests for it (lines 510-513).
LegacyUsers ==
    LET made == register_user(EmptyDict, Ali, PwGood, AliMailTyped,
                              <<"U", "s", "e", "r">>, FALSE, 0).us
    IN  [u \in DOMAIN made |-> [made[u] EXCEPT !.password = <<>>]]

InitLegacy ==
    /\ now = 0
    /\ users = LegacyUsers
    /\ attempts = EmptyDict
    /\ otp_data = EmptyDict
    /\ reset_data = EmptyDict
    /\ session = init_auth_state
    /\ ret = NoCall
    /\ pre = [now |-> 0, users |-> LegacyUsers, attempts |-> EmptyDict,
              otp_data |-> EmptyDict, reset_data |-> EmptyDict,
              session |-> init_auth_state, streak |-> EmptyDict, consumed |-> {},
              registered |-> {}]
    /\ hist = NoHistory
    /\ pc = [c \in Callers |-> "idle"]
    /\ loc = [c \in Callers |-> NoLocal]

LegacyIds == {AliUpper, AliPadded, AliMailTyped, Bob}
LegacyPws == {PwGood, PwWrong, <<>>}

NextLegacy ==
    \/ Register(Bob, PwGood, BobMail, FALSE)
    \/ \E id \in LegacyIds, pw \in LegacyPws : Authenticate(id, pw, 0, 0)
    \/ Logout

SpecLegacy == InitLegacy /\ [][NextLegacy]_vars

\* Hashing one plaintext and verifying another against the digest
Plaintexts == {<<>>, PwGood, PwWrong, PwNew, PwPadded, PwShort, PwWeak, PwMixed,
               PwLong, PwFour, PwStrong, PwPaddedShort}

NextHash == \E stored \in Plaintexts, tried \in Plaintexts : HashThenVerify(stored, tried)

SpecHash == Init /\ [][NextHash]_vars

\* Signing up and logging in straight away, also on a name that failed logins
\* had locked before it was registered; the clock stands still.
SignupIds == {AliUpper, AliPadded, AliMail}
SignupPws == {PwGood, PwPadded, PwWrong}

NextSignup ==
    \/ \E password \in {PwGood, PwPadded}, otp_verified \in BOOLEAN :
          Register(Ali, password, AliMailTyped, otp_verified)
    \/ \E id \in SignupIds, pw \in SignupPws : Authenticate(id, pw, 0, 0)

SpecSignup == Init /\ [][NextSignup]_vars

\* The signup OTP store with the clock running tick by tick past the life of
\* a code; request_otp is called with either purpose.
ExpiryMails == {AliMail}
ExpiryCodes == {OTP_LOW, OTP_HIGH}
ExpiryPurposes == {"verification", "reset"}
ExpiryMaxTime == OTP_TTL_MIN * TicksPerMin + SlackTicks

NextExpiry ==
    \/ Advance(1, ExpiryMaxTime)
    \/ \E email \in ExpiryMails, p \in ExpiryPurposes, otp \in ExpiryCodes :
          RequestOtp(email, p, otp)
    \/ \E email \in ExpiryMails, code \in ExpiryCodes : VerifyOtp(email, code)

SpecExpiry == Init /\ [][NextExpiry]_vars

\* Codes issued again and again in the two OTP stores, the clock running for
\* a few ticks.  The stores are separate files: a run exercises one of them.
IssueMails == {AliMail}
IssueCodes == {OTP_LOW, OTP_HIGH}

NextIssue ==
    \/ Advance(1, SlackTicks)
    \/ Register(Ali, PwGood, AliMailTyped, FALSE)
    \/ \E email \in IssueMails, otp \in IssueCodes :
          reset_data = EmptyDict /\ RequestOtp(email, "verification", otp)
    \/ \E email \in IssueMails, code \in IssueCodes :
          reset_data = EmptyDict /\ VerifyOtp(email, code)
    \/ \E email \in IssueMails, otp \in IssueCodes :
          otp_data = EmptyDict /\ InitiateReset(email, otp)
    \/ \E email \in IssueMails, code \in IssueCodes :
          otp_data = EmptyDict /\ VerifyReset(email, code)

SpecIssue == Init /\ [][NextIssue]_vars

\* Failed logins recorded by concurrent callers (Streamlit runs every browser
\* session in a thread of its own, all on the same files)
ConcIds == {AliUpper, AliMail}

NextConc ==
    \/ \E c \in Callers, id \in ConcIds : RecordFailureLoad(c, id)
    \/ \E c \in Callers : RecordFailureSave(c)

SpecConc == Init /\ [][NextConc]_vars

\* One signup code issued, then verify_otp calls by concurrent callers
ConcOtpCodes == {OTP_LOW, OTP_HIGH}

NextConcOtp ==
    \/ /\ hist.issued = EmptyDict
       /\ RequestOtp(AliMail, "verification", OTP_LOW)
    \/ \E c \in Callers, code \in ConcOtpCodes :
          hist.issued # EmptyDict /\ VerifyOtpLoad(c, AliMail, code)
    \/ \E c \in Callers : VerifyOtpSave(c)

SpecConcOtp == Init /\ [][NextConcOtp]_vars

\* Logins by concurrent callers beside a password reset; the reset runs as
\* one step
ConcLoginIds == {AliUpper, BobMail}
ConcLoginPws == {PwGood, PwNew}

NextConcLogin ==
    \/ Register(Ali, PwGood, AliMailTyped, FALSE)
    \/ Register(Bob, PwGood, BobMail, FALSE)
    \/ \E otp \in {OTP_LOW} : InitiateReset(AliMailTyped, otp)
    \/ \E code \in {OTP_LOW} : VerifyReset(AliMailTyped, code)
    \/ ResetPassword(AliMailTyped, PwNew, PwNew)
    \/ \E c \in Callers, id \in ConcLoginIds, pw \in ConcLoginPws : LoginLoad(c, id, pw)
    \/ \E c \in Callers : LoginSave(c)

SpecConcLogin == Init /\ [][NextConcLogin]_vars

\* One browser session clicking through the login form, the user panel and
\* the forgot-password wizard
PagePws == {PwGood, PwNew, PwWrong}

NextPages ==
    \/ Register(Ali, PwGood, AliMailTyped, FALSE)
    \/ \E pw \in PagePws :
          /\ SumCounts(attempts, DOMAIN attempts) < MaxFailures
          /\ SignInButton(AliUpper, pw)
    \/ SignOutButton
    \/ ForgotPasswordButton
    \/ BackToLoginButton
    \/ \E email \in {AliMailTyped, BobMail} : SendOtpButton(email, OTP_LOW)
    \/ OtpBackButton
    \/ ResendButton(OTP_HIGH)
    \/ \E code \in {OTP_LOW, OTP_HIGH} : VerifyButton(code)
    \/ CancelButton
    \/ \E pws \in {<<PwNew, PwNew>>, <<PwNew, PwGood>>} : ResetPasswordButton(pws[1], pws[2])

SpecPages == Init /\ [][NextPages]_vars

\* A reset completed long after its code was verified; the clock moves by
\* half a lockout at a time, which is more than half the life of a reset code.
LateResetPws == {<<PwNew, PwNew>>, <<PwShort, PwShort>>, <<PwNew, PwGood>>}

NextLateReset ==
    \/ Advance(HalfLock, AuthMaxTime)
    \/ Register(Ali, PwGood, AliMailTyped, FALSE)
    \/ InitiateReset(AliMailTyped, OTP_LOW)
    \/ \E code \in {OTP_LOW, OTP_HIGH} : VerifyReset(AliMailTyped, code)
    \/ \E pws \in LateResetPws : ResetPassword(AliMailTyped, pws[1], pws[2])

SpecLateReset == Init /\ [][NextLateReset]_vars

\* Logins one after the other while the clock moves, between the calls by half
\* a lockout at a time and within a call by the drifts; the drifts add up to
\* SlackTicks at most after each step of the clock.
CountIds == {AliUpper}
CountPws == {PwGood, PwWrong}
CountMaxTime == AuthMaxTime + SlackTicks

NextCount ==
    \/ Advance(HalfLock, CountMaxTime)
    \/ Register(Ali, PwGood, AliMailTyped, FALSE)
    \/ \E id \in CountIds, pw \in CountPws, d1 \in Drifts, d2 \in Drifts :
          /\ (now + d1 + d2) % HalfLock <= SlackTicks
          /\ now + d1 + d2 <= CountMaxTime
          /\ Authenticate(id, pw, d1, d2)

SpecCount == Init /\ [][NextCount]_vars

-----------------------------------------------------------------------------
(* Properties.  pre is the state the last call found, ret the call and its
   result, the unprimed stores the state it left. *)

\* the identifier's attempt record carried a lock still running at time t
LockRunning(att, identifier, t) ==
    LET k == IdentifierKey(identifier)
    IN  /\ k \in DOMAIN att
        /\ att[k].locked_until # Null
        /\ t < att[k].locked_until

\* the users that the identifier names, by username or by email, ignoring case
UsersNamed(us, identifier) ==
    {u \in DOMAIN us : \/ Lower(u) = Lower(Strip(identifier))
                       \/ Lower(us[u].email) = Lower(Strip(identifier))}

\* C1 as stated: while an identifier is locked, every authenticate call with
\* it is refused with Locked, whatever the password, and the session is left
\* as it was.
C1_LockedAlwaysAnswersLocked ==
    (ret.op = "authenticate_user" /\ LockRunning(pre.attempts, ret.id, pre.now))
        => (~ret.ok /\ ret.msg = "Locked" /\ session = pre.session)

\* C1 amended: while an identifier is locked, every authenticate call with it
\* is refused and leaves the session as it was; the refusal is Locked when the
\* password is not empty (also when it is the correct one) and InvalidInput
\* when the password is empty.
C1_LockedRefused ==
    (ret.op = "authenticate_user" /\ LockRunning(pre.attempts, ret.id, pre.now))
        => /\ ~ret.ok
           /\ session = pre.session
           /\ ret.pw # <<>> => ret.msg = "Locked"
           /\ ret.pw = <<>> => ret.msg = "InvalidInput"

\* a locked identifier of a registered user was tried with the right password
C1_Witness ==
    /\ ret.op = "authenticate_user"
    /\ LockRunning(pre.attempts, ret.id, pre.now)
    /\ ret.msg = "Locked"
    /\ \E u \in UsersNamed(pre.users, ret.id) :
          pre.users[u].password = hash_password(Strip(ret.pw))

\* C11: once 15 minutes have passed since the failure that set the lock, an
\* authenticate call with that identifier and the right credentials succeeds;
\* an authenticate call made while the lock runs, with the right or a wrong
\* password, leaves locked_until as it was.
C11_LockoutEnds ==
    LET k == IdentifierKey(ret.id)
    IN  (ret.op = "authenticate_user" /\ k \in DOMAIN pre.attempts
                                       /\ pre.attempts[k].locked_until # Null)
            => /\ (/\ pre.now >= pre.attempts[k].locked_until
                   /\ ret.pw # <<>>
                   /\ \E u \in UsersNamed(pre.users, ret.id) :
                         pre.users[u].password = hash_password(Strip(ret.pw)))
                      => ret.ok
               /\ pre.now < pre.attempts[k].locked_until
                      => /\ k \in DOMAIN attempts
                         /\ attempts[k].locked_until = pre.attempts[k].locked_until

\* a login succeeded on an identifier whose lock, set at time 0, had run out
C11_Witness ==
    LET k == IdentifierKey(ret.id)
    IN  /\ ret.op = "authenticate_user"
        /\ ret.ok
        /\ k \in DOMAIN pre.attempts
        /\ pre.attempts[k].locked_until # Null
        /\ pre.now >= pre.attempts[k].locked_until
        /\ pre.attempts[k].locked_until = LockTicks

\* C18: an authenticate call that finds the identifier locked returns Locked
\* (whether or not the identifier names a user) and changes nothing: the user
\* store, the attempt records and the session are as the call found them.
C18_LockedChangesNothing ==
    (/\ ret.op = "authenticate_user"
     /\ ret.pw # <<>>
     /\ LockRunning(pre.attempts, ret.id, pre.now))
        => /\ ret.msg = "Locked"
           /\ users = pre.users
           /\ attempts = pre.attempts
           /\ session = pre.session

\* a locked identifier that names no user was tried half a lockout after the
\* failure that locked it
C18_Witness ==
    /\ ret.op = "authenticate_user"
    /\ ret.msg = "Locked"
    /\ UsersNamed(pre.users, ret.id) = {}
    /\ pre.now > 0
    /\ pre.attempts[IdentifierKey(ret.id)].locked_until = LockTicks

\* C3 as stated: when failed logins with a user's username have locked it, a
\* login with the same user's email during the lockout is reported locked too.
C3_EmailSharesUsernameLock ==
    (/\ ret.op = "authenticate_user"
     /\ ret.pw # <<>>
     /\ \E u \in DOMAIN pre.users :
           /\ Lower(Strip(ret.id)) = Lower(pre.users[u].email)
           /\ LockRunning(pre.attempts, u, pre.now)
           /\ pre.attempts[IdentifierKey(u)].count >= MAX_LOGIN_ATTEMPTS)
        => (~ret.ok /\ ret.msg \in {"Locked", "LockedFor"})

\* C8 as stated: a failed authenticate call returns what the same call returns
\* when the identifier names no user (same identifier, password and history).
C8_NoUserEnumeration ==
    (ret.op = "authenticate_user" /\ ~ret.ok)
        => LET twin == authenticate_user(EmptyDict, pre.attempts, pre.session,
                                         ret.id, ret.pw, pre.now, 0, 0)
           IN  <<ret.ok, ret.msg, ret.n>> = <<twin.ok, twin.msg, twin.n>>

\* C9: a successful authenticate leaves no attempt record under the user's
\* username, under the user's email, or under the identifier that was typed.
C9_AliasJointClearing ==
    (ret.op = "authenticate_user" /\ ret.ok)
        => /\ IdentifierKey(ret.id) \notin DOMAIN attempts
           /\ \A u \in UsersNamed(pre.users, ret.id) :
                 /\ IdentifierKey(u) \notin DOMAIN attempts
                 /\ IdentifierKey(pre.users[u].email) \notin DOMAIN attempts

\* a login succeeded while the alias that was not typed carried failures
C9_Witness ==
    /\ ret.op = "authenticate_user"
    /\ ret.ok
    /\ \E u \in UsersNamed(pre.users, ret.id) :
          \E k \in {IdentifierKey(u), IdentifierKey(pre.users[u].email)} :
              /\ k # IdentifierKey(ret.id)
              /\ k \in DOMAIN pre.attempts
              /\ pre.attempts[k].count >= 1

\* C2 as stated: is_locked called right after the 5th consecutive
\* record_failure on a fresh identifier (within the minute that follows)
\* returns (true, 15); called after only 4, it returns (false, null).
C2_LockoutThreshold ==
    LET k == IdentifierKey(ret.id)
    IN  (ret.op = "is_account_locked" /\ ret.id # <<>> /\ k \in DOMAIN pre.streak)
            => /\ (/\ pre.streak[k] = 5
                   /\ pre.now - (pre.attempts[k].locked_until - LockTicks) < TicksPerMin)
                      => (ret.ok /\ ret.n = LOCKOUT_DURATION)
               /\ pre.streak[k] = 4 => (~ret.ok /\ ret.n = Null)

\* C10: when locked_until is in the past, is_locked returns (false, null) and
\* deletes the record, so that get returns the zero-value record.
C10_LockoutSelfHeal ==
    LET k == IdentifierKey(ret.id)
    IN  (/\ ret.op = "is_account_locked"
         /\ ret.id # <<>>
         /\ k \in DOMAIN pre.attempts
         /\ pre.attempts[k].locked_until # Null
         /\ pre.now >= pre.attempts[k].locked_until)
            => /\ ~ret.ok
               /\ ret.n = Null
               /\ k \notin DOMAIN attempts
               /\ get_login_attempts(attempts, ret.id) =
                      [count |-> 0, last_attempt |-> Null, locked_until |-> Null]

\* is_locked was called on an identifier whose lock had run out
C10_Witness ==
    LET k == IdentifierKey(ret.id)
    IN  /\ ret.op = "is_account_locked"
        /\ k \in DOMAIN pre.attempts
        /\ pre.attempts[k].locked_until # Null
        /\ pre.now >= pre.attempts[k].locked_until
        /\ ~ret.ok

\* C4: complete_password_reset changes a password hash only when the reset
\* record of that email exists with verified = true, which is only after the
\* code of the latest initiate was submitted; in every other case it returns
\* an error and leaves the user store and the reset record as they were.
C4_ResetOnlyAfterVerify ==
    ret.op = "reset_password" =>
        LET e == Lower(ret.id)
            k == ResetKey(ret.id)
            verified == e \in DOMAIN pre.reset_data /\ pre.reset_data[e].verified
            changed == \E u \in DOMAIN pre.users : users[u].password # pre.users[u].password
        IN  /\ (ret.ok \/ changed)
                  => (verified /\ k \in DOMAIN hist.wrong /\ hist.wrong[k] = Null)
            /\ ~verified => ~ret.ok
            /\ ~ret.ok => (users = pre.users /\ reset_data = pre.reset_data)

\* a reset went through and replaced the password hash
C4_Witness ==
    /\ ret.op = "reset_password"
    /\ ret.ok
    /\ \E u \in DOMAIN pre.users : users[u].password # pre.users[u].password

\* C12: a successful complete_password_reset consumes the reset code: until a
\* new reset is initiated for the email, every verify for it returns NotFound
\* and every further complete_password_reset fails and changes no password.
C12_ResetCodeConsumed ==
    /\ (ret.op = "reset_password" /\ ret.ok) => Lower(ret.id) \notin DOMAIN reset_data
    /\ (ret.op = "verify_reset_otp" /\ ResetKey(ret.id) \in pre.consumed)
          => (~ret.ok /\ ret.msg = "OtpNotFound" /\ reset_data = pre.reset_data)
    /\ (ret.op = "reset_password" /\ ResetKey(ret.id) \in pre.consumed)
          => (~ret.ok /\ users = pre.users /\ reset_data = pre.reset_data)

\* a second complete_password_reset, well-formed, was tried on a consumed code
C12_Witness ==
    /\ ret.op = "reset_password"
    /\ ResetKey(ret.id) \in pre.consumed
    /\ ret.msg = "OtpNotFound"

\* C5 as stated: after a successful complete_password_reset, authenticate with
\* the user's username or email and the new password succeeds unless the
\* identifier is locked, and the old password no longer authenticates.
C5_NewPasswordLogsIn ==
    (ret.op = "authenticate_user" /\ ~LockRunning(pre.attempts, ret.id, pre.now))
        => \A u \in UsersNamed(pre.users, ret.id) \cap DOMAIN hist.oldpw :
              /\ ret.pw = hist.pw[u] => ret.ok
              /\ (ret.pw = hist.oldpw[u] /\ hist.oldpw[u] # hist.pw[u]) => ~ret.ok

\* the last call was a verify of the signup store, of the reset store
SignupVerify == ret.op = "verify_otp" /\ SignupKey(ret.id) \in DOMAIN hist.wrong
ResetVerify == ret.op = "verify_reset_otp" /\ ResetKey(ret.id) \in DOMAIN hist.wrong

\* the record the last verify found was within its life
SignupAlive ==
    /\ ret.id \in DOMAIN pre.otp_data
    /\ pre.now - pre.otp_data[ret.id].timestamp <= OTP_TTL_MIN * TicksPerMin
ResetAlive ==
    /\ Lower(ret.id) \in DOMAIN pre.reset_data
    /\ pre.now - pre.reset_data[Lower(ret.id)].timestamp <= RESET_TTL_MIN * TicksPerMin

SignupAge == pre.now - pre.otp_data[ret.id].timestamp

\* C13: for a verification-purpose OTP that has verified once, a further
\* verify with the correct code within the TTL (the record not having used up
\* its attempts) succeeds again and leaves the record, verified, in place.
C13_VerifyIdempotent ==
    (/\ ret.op = "verify_otp"
     /\ ret.id \in DOMAIN pre.otp_data
     /\ pre.otp_data[ret.id].purpose = "verification"
     /\ pre.otp_data[ret.id].verified
     /\ pre.otp_data[ret.id].attempts < OTP_MAX_ATTEMPTS
     /\ ret.code = pre.otp_data[ret.id].otp
     /\ SignupAge <= OTP_TTL_MIN * TicksPerMin)
        => /\ ret.ok
           /\ ret.msg = "OtpVerified"
           /\ otp_data = pre.otp_data

\* a verified code was verified a second time, later
C13_Witness ==
    /\ ret.op = "verify_otp"
    /\ ret.ok
    /\ ret.id \in DOMAIN pre.otp_data
    /\ pre.otp_data[ret.id].purpose = "verification"
    /\ pre.otp_data[ret.id].verified
    /\ SignupAge > 0

\* C14: verify_otp with the correct code succeeds when the code's age is at
\* most 5 minutes; when the age exceeds 5 minutes it returns Expired and
\* deletes the record, whether the code is correct or not (the record not
\* having used up its attempts).
C14_ExpiryBoundary ==
    (/\ ret.op = "verify_otp"
     /\ ret.id \in DOMAIN pre.otp_data
     /\ pre.otp_data[ret.id].attempts < OTP_MAX_ATTEMPTS)
        => /\ (SignupAge <= OTP_TTL_MIN * TicksPerMin /\ ret.code = pre.otp_data[ret.id].otp)
                 => (ret.ok /\ ret.id \in DOMAIN otp_data /\ otp_data[ret.id].verified)
           /\ SignupAge > OTP_TTL_MIN * TicksPerMin
                 => (~ret.ok /\ ret.msg = "OtpExpired" /\ ret.id \notin DOMAIN otp_data)

\* the correct code was submitted one tick after its life had ended
C14_Witness ==
    /\ ret.op = "verify_otp"
    /\ ret.msg = "OtpExpired"
    /\ ret.code = pre.otp_data[ret.id].otp
    /\ SignupAge = OTP_TTL_MIN * TicksPerMin + 1

\* C15 as stated: issuing an OTP for one purpose leaves the record of the
\* other purpose for the same email in the store, unchanged; the verify of
\* the signup flow accepts no code that was issued for the reset purpose.
C15_PurposesSeparate ==
    /\ (/\ ret.op = "request_otp"
        /\ ret.id \in DOMAIN pre.otp_data
        /\ pre.otp_data[ret.id].purpose # otp_data[ret.id].purpose)
          => \E k \in DOMAIN otp_data : otp_data[k] = pre.otp_data[ret.id]
    /\ (ret.op = "verify_otp" /\ ret.ok)
          => pre.otp_data[ret.id].purpose = "verification"

\* C16: issuing an OTP replaces the record of its key in full: the record
\* holds the new code, attempts = 0, verified = false and issued_at = now, in
\* the signup store and in the reset store; and no code other than the one
\* last issued for the key verifies.
C16_ReissueReplaces ==
    /\ ret.op = "request_otp"
          => /\ ret.id \in DOMAIN otp_data
             /\ otp_data[ret.id].otp = ret.code
             /\ otp_data[ret.id].attempts = 0
             /\ ~otp_data[ret.id].verified
             /\ otp_data[ret.id].timestamp = pre.now
             /\ \A k \in DOMAIN pre.otp_data \ {ret.id} :
                   k \in DOMAIN otp_data /\ otp_data[k] = pre.otp_data[k]
    /\ (ret.op = "initiate_password_reset" /\ ret.ok)
          => LET e == Lower(ret.id)
             IN  /\ e \in DOMAIN reset_data
                 /\ reset_data[e].otp = ret.code
                 /\ reset_data[e].attempts = 0
                 /\ ~reset_data[e].verified
                 /\ reset_data[e].timestamp = pre.now
    /\ (ret.op = "verify_otp" /\ SignupKey(ret.id) \in DOMAIN hist.issued
                              /\ ret.code # hist.issued[SignupKey(ret.id)]) => ~ret.ok
    /\ (ret.op = "verify_reset_otp" /\ ResetKey(ret.id) \in DOMAIN hist.issued
                                    /\ ret.code # hist.issued[ResetKey(ret.id)]) => ~ret.ok

\* a signup code was issued over a record, older, that had verified with
\* another code after a wrong attempt
C16_Witness ==
    /\ ret.op = "request_otp"
    /\ ret.id \in DOMAIN pre.otp_data
    /\ pre.otp_data[ret.id].verified
    /\ pre.otp_data[ret.id].attempts > 0
    /\ pre.otp_data[ret.id].otp # ret.code
    /\ pre.otp_data[ret.id].timestamp < pre.now

\* C17: every record of the login-attempt store has locked_until set if and
\* only if its count is at least 5.
C17_LockedIffFive ==
    \A k \in DOMAIN attempts :
        (attempts[k].locked_until # Null) <=> (attempts[k].count >= MAX_LOGIN_ATTEMPTS)

\* the 5th failure in a row has just been recorded, after the clock moved
C17_Witness ==
    /\ ret.op = "record_failed_login"
    /\ ret.id # <<>>
    /\ attempts[IdentifierKey(ret.id)].count = MAX_LOGIN_ATTEMPTS
    /\ attempts[IdentifierKey(ret.id)].locked_until > LockTicks
    /\ pre.attempts[IdentifierKey(ret.id)].locked_until = Null

\* C19: initiate, verify and complete of the password reset leave every
\* login-attempt record as it was, so a lockout running before a reset runs on
\* after it: a login on the locked identifier with the new password is
\* refused as Locked.
C19_ResetKeepsLockout ==
    /\ ret.op \in {"initiate_password_reset", "verify_reset_otp", "reset_password"}
          => attempts = pre.attempts
    /\ (/\ ret.op = "authenticate_user"
        /\ LockRunning(pre.attempts, ret.id, pre.now)
        /\ \E u \in UsersNamed(pre.users, ret.id) \cap DOMAIN hist.oldpw :
              ret.pw = hist.pw[u])
          => (~ret.ok /\ ret.msg = "Locked" /\ attempts = pre.attempts)

\* the new password was refused as Locked on an identifier locked before the
\* reset was made
C19_Witness ==
    /\ ret.op = "authenticate_user"
    /\ ret.msg = "Locked"
    /\ \E u \in UsersNamed(pre.users, ret.id) \cap DOMAIN hist.oldpw :
          /\ ret.pw = hist.pw[u]
          /\ pre.users[u].password_reset_date
                 > pre.attempts[IdentifierKey(ret.id)].locked_until - LockTicks

\* C20: a successful authenticate sets the session to authenticated with the
\* stored username of the user the identifier names, that user's role and
\* email, and login_time = now; it adds exactly 1 to that user's login_count,
\* sets last_login to now and changes nothing else in the user store.
C20_LoginEffects ==
    (ret.op = "authenticate_user" /\ ret.ok)
        => \E u \in UsersNamed(pre.users, ret.id) :
              /\ session = [pre.session EXCEPT !.authenticated = TRUE,
                                               !.current_user = u,
                                               !.current_role = pre.users[u].role,
                                               !.current_email = pre.users[u].email,
                                               !.user_avatar = pre.users[u].avatar,
                                               !.login_time = pre.now]
              /\ DOMAIN users = DOMAIN pre.users
              /\ users[u] = [pre.users[u] EXCEPT
                                !.login_count = pre.users[u].login_count + 1,
                                !.last_login = pre.now]
              /\ \A v \in DOMAIN users \ {u} : users[v] = pre.users[v]

\* a user logged in under an identifier typed otherwise than the stored
\* username, some time after registration, beside another user
C20_Witness ==
    /\ ret.op = "authenticate_user"
    /\ ret.ok
    /\ session.current_user # Strip(ret.id)
    /\ pre.now > 0
    /\ \E v \in DOMAIN users : v # session.current_user /\ users[v].login_count > 0

\* C21: from any session, logout leaves authenticated = false and username,
\* role, email and login_time null; a second logout changes nothing more; no
\* persisted store is changed.
C21_LogoutZeroValue ==
    ret.op = "logout_user"
        => /\ ~session.authenticated
           /\ session.current_user = NullStr
           /\ session.current_role = NullStr
           /\ session.current_email = NullStr
           /\ session.login_time = Null
           /\ logout_user(session) = session
           /\ users = pre.users
           /\ attempts = pre.attempts
           /\ otp_data = pre.otp_data
           /\ reset_data = pre.reset_data

\* a logged-in user logged out
C21_Witness ==
    /\ ret.op = "logout_user"
    /\ pre.session.authenticated
    /\ pre.session.current_user \in DOMAIN users
    /\ pre.session.login_time # Null

\* C22: no two stored users have usernames equal ignoring case, nor emails
\* equal ignoring case; a register call whose username or email is taken,
\* ignoring case, fails and leaves the user store as it was.
C22_UniqueUsers ==
    /\ \A u, v \in DOMAIN users :
          u # v => (Lower(u) # Lower(v) /\ Lower(users[u].email) # Lower(users[v].email))
    /\ ret.op = "register_user"
          => /\ (\E u \in DOMAIN pre.users :
                    \/ Lower(u) = Lower(Strip(ret.id))
                    \/ Lower(pre.users[u].email) = Lower(Strip(ret.mail)))
                   => (~ret.ok /\ users = pre.users)
             /\ ret.msg \in {"UsernameTaken", "EmailTaken"} => users = pre.users

\* a fresh username was refused because its email, typed in another case, was
\* already registered
C22_Witness ==
    /\ ret.op = "register_user"
    /\ ret.msg = "EmailTaken"
    /\ \A u \in DOMAIN users : users[u].email # ret.mail

\* the count of satisfied criteria and its band on the 0-4 scale
Criteria(p) ==
    Cardinality({c \in {"length", "uppercase", "lowercase", "digit", "symbol"} :
        \/ c = "length" /\ Len(p) >= 8
        \/ c = "uppercase" /\ \E i \in 1..Len(p) : p[i] \in UpperChars
        \/ c = "lowercase" /\ \E i \in 1..Len(p) : p[i] \in LowerChars
        \/ c = "digit" /\ \E i \in 1..Len(p) : p[i] \in DigitChars
        \/ c = "symbol" /\ \E i \in 1..Len(p) : p[i] \in SpecialChars})
Band(n) == IF n <= 1 THEN 0 ELSE n - 1

\* the last register call passed the checks of the username and the email
RegisterReachedPassword ==
    /\ ret.op = "register_user"
    /\ validate_username(Strip(ret.id))
    /\ validate_email(Lower(Strip(ret.mail)))

\* C24 as stated: register rejects the password, leaving the user store
\* unchanged, exactly when the password's length is below 6 or its strength
\* band is below 2.
C24_PasswordRule ==
    RegisterReachedPassword
        => /\ ret.msg \in {"TooShort", "TooWeak"}
                 <=> (Len(ret.pw) < 6 \/ Band(Criteria(ret.pw)) < 2)
           /\ ret.msg \in {"TooShort", "TooWeak"} => users = pre.users

\* C24 amended: the rule is applied to the password with the whitespace at
\* its ends removed: register rejects the password, leaving the user store
\* unchanged, exactly when the trimmed password's length is below 6 or its
\* strength band is below 2.
C24_TrimmedPasswordRule ==
    RegisterReachedPassword
        => /\ ret.msg \in {"TooShort", "TooWeak"}
                 <=> (Len(Strip(ret.pw)) < 6 \/ Band(Criteria(Strip(ret.pw))) < 2)
           /\ ret.msg \in {"TooShort", "TooWeak"} => users = pre.users

\* a password of 6 characters with two criteria was rejected as too weak
C24_Witness ==
    /\ RegisterReachedPassword
    /\ ret.msg = "TooWeak"
    /\ Len(ret.pw) = 6
    /\ Criteria(ret.pw) = 2

\* the last call was an authenticate, made right after the register call that
\* created user u, with the username or the email of u and the password as it
\* was typed at registration
LoginRightAfterRegister(u) ==
    /\ ret.op = "authenticate_user"
    /\ u \in pre.registered
    /\ Lower(Strip(ret.id)) \in {Lower(u), Lower(pre.users[u].email)}
    /\ ret.pw = hist.pw[u]

\* C23 as stated: a successful register creates a record with password_hash =
\* hash(password), login_count = 0 and verified = the OTP-verified flag; an
\* authenticate right after it with the registered username (any case) or
\* email and the same password succeeds.
C23_RegisterThenLogin ==
    /\ (ret.op = "register_user" /\ ret.ok)
          => /\ Strip(ret.id) \in DOMAIN users
             /\ users[Strip(ret.id)].password = hash_password(ret.pw)
             /\ users[Strip(ret.id)].login_count = 0
             /\ users[Strip(ret.id)].verified = (ret.n = 1)
    /\ \A u \in pre.registered : LoginRightAfterRegister(u) => ret.ok

\* C23 amended: the hash stored is the one of the password with the
\* whitespace at its ends removed, and the login right after succeeds provided
\* the identifier it uses carries no running lock.
C23_RegisterThenLoginUnlocked ==
    /\ (ret.op = "register_user" /\ ret.ok)
          => /\ Strip(ret.id) \in DOMAIN users
             /\ users[Strip(ret.id)].password = hash_password(Strip(ret.pw))
             /\ users[Strip(ret.id)].login_count = 0
             /\ users[Strip(ret.id)].verified = (ret.n = 1)
    /\ \A u \in pre.registered :
          (LoginRightAfterRegister(u) /\ ~LockRunning(pre.attempts, ret.id, pre.now))
              => ret.ok

\* a user registered with a padded password and the OTP-verified flag logged
\* in right away by email, typing the password as at registration
C23_Witness ==
    /\ ret.ok
    /\ \E u \in pre.registered :
          /\ LoginRightAfterRegister(u)
          /\ pre.users[u].verified
          /\ Strip(ret.pw) # ret.pw
          /\ Lower(Strip(ret.id)) = pre.users[u].email

\* C25 as stated: when a write to a store fails during an operation, the
\* operation reports failure and no partial state change remains: authenticate
\* leaves no authenticated session and no cleared attempt records when the
\* user record cannot be saved, and the password reset leaves no changed
\* password together with a still verified, unconsumed reset record.
C25_NoPartialState ==
    ret.fault # "none"
        => /\ ~ret.ok
           /\ users = pre.users
           /\ attempts = pre.attempts
           /\ session = pre.session
           /\ reset_data = pre.reset_data

\* the last call was an authenticate_user with both fields filled in whose
\* identifier resolved to a user without a stored password hash
ResolvedToEmptyHash ==
    /\ ret.op = "authenticate_user"
    /\ ret.id # <<>> /\ ret.pw # <<>>
    /\ find_user_by_identifier(pre.users, Strip(ret.id)) # <<>>
    /\ pre.users[find_user_by_identifier(pre.users, Strip(ret.id))].password = <<>>

\* C26: if the resolved user's stored password hash is empty, authenticate
\* returns the configuration error, which is not InvalidCredentials, and
\* records no failed attempt: the attempt records, the user store and the
\* session are unchanged, however many times the call is repeated.
C26_EmptyHashConfigError ==
    ResolvedToEmptyHash
        => /\ ~ret.ok
           /\ ret.msg = "ConfigError"
           /\ attempts = pre.attempts
           /\ users = pre.users
           /\ session = pre.session

\* the call was answered with the configuration error more often than failed
\* logins are allowed, the last time by email while another user was logged in
C26_Witness ==
    /\ ResolvedToEmptyHash
    /\ hist.config > MAX_LOGIN_ATTEMPTS
    /\ Lower(Strip(ret.id)) = AliMail
    /\ session.authenticated

\* the least whole number of minutes that covers d ticks
CeilMinutes(d) == -((-d) \div TicksPerMin)

\* C27 as stated: whenever is_locked returns true, the minutes it reports are
\* the ceiling of the time remaining until locked_until, in minutes, so the
\* value is at least 1 and at most 15 and never 0 while the identifier is
\* still locked.
C27_RemainingIsCeiling ==
    LET k == IdentifierKey(ret.id)
    IN  (ret.op = "is_account_locked" /\ ret.ok)
            => /\ ret.n = CeilMinutes(pre.attempts[k].locked_until - now)
               /\ ret.n >= 1
               /\ ret.n <= LOCKOUT_DURATION

\* C28: for every non-empty plaintext p, verify(p, hash(p)) is true; for every
\* pair of different plaintexts p and q, verify(q, hash(p)) is false; verify
\* returns false whenever the plaintext or the digest is empty, and the hash of
\* the empty plaintext is the empty digest.
C28_HashRoundTrip ==
    ret.op = "verify_password"
        => /\ (ret.id # <<>> /\ ret.pw = ret.id) => ret.ok
           /\ ret.pw # ret.id => ~ret.ok
           /\ (ret.pw = <<>> \/ ret.mail = <<>>) => ~ret.ok
           /\ ret.id = <<>> => ret.mail = <<>>

\* a plaintext that differs from the hashed one in letter case only was refused
C28_Witness ==
    /\ ret.op = "verify_password"
    /\ ret.id # <<>>
    /\ ret.pw # ret.id
    /\ Lower(ret.pw) = Lower(ret.id)
    /\ ~ret.ok

\* C29 as stated: for one issued OTP at most 5 wrong codes are ever compared
\* against it and answered with Mismatch, also when verify calls for the same
\* key run concurrently: concurrent wrong guesses each increase attempts by 1
\* and none is lost.
C29_NoGuessLost ==
    /\ hist.mismatches <= OTP_MAX_ATTEMPTS
    /\ (/\ \A c \in Callers : pc[c] = "idle"
        /\ AliMail \in DOMAIN otp_data)
           => otp_data[AliMail].attempts = hist.mismatches

\* C30 as stated: in both OTP flows, a verify call that finds attempts >= 5
\* deletes the record before returning AttemptsExceeded, so the store holds no
\* exhausted record after the call and the next verify for the key, finding no
\* record, returns NotFound.
C30_ExhaustedRecordDeleted ==
    /\ ret.op = "verify_otp" =>
          /\ (/\ ret.id \in DOMAIN pre.otp_data
              /\ pre.otp_data[ret.id].attempts >= OTP_MAX_ATTEMPTS)
                => (ret.msg = "OtpAttemptsExceeded" /\ ret.id \notin DOMAIN otp_data)
          /\ ret.id \notin DOMAIN pre.otp_data => ret.msg = "OtpNotFound"
    /\ ret.op = "verify_reset_otp" =>
          /\ (/\ Lower(ret.id) \in DOMAIN pre.reset_data
              /\ pre.reset_data[Lower(ret.id)].attempts >= RESET_MAX_ATTEMPTS)
                => (ret.msg = "OtpAttemptsExceeded" /\ Lower(ret.id) \notin DOMAIN reset_data)
          /\ Lower(ret.id) \notin DOMAIN pre.reset_data => ret.msg = "OtpNotFound"

\* C31 as stated: a completed password reset stays in effect under
\* concurrency: after reset_password has returned success, the stored password
\* hash of that user is hash(new_password) in every later state until the next
\* successful reset, also when an authenticate call, for this or another user,
\* that loaded the user store earlier writes it back.
C31_ResetStaysInEffect ==
    \A u \in DOMAIN hist.oldpw :
        /\ u \in DOMAIN users
        /\ users[u].password = hash_password(hist.pw[u])

\* C32 as stated: in every reachable state in which the forgot-password view
\* is shown, reset_step is one of email, otp, newpassword, so that one of the
\* three wizard steps is rendered, after any sequence of login, logout,
\* "Forgot Password?", back, cancel and wizard actions.
C32_WizardStepRendered ==
    WizardShown => session.reset_step \in {"email", "otp", "newpassword"}

\* the last call was a reset_password whose two passwords agree and are long
\* enough
WellFormedReset ==
    /\ ret.op = "reset_password"
    /\ ret.n = 1
    /\ Len(ret.pw) >= RESET_MIN_PASSWORD_LEN

\* C33: reset_password decides only on the existence of the reset record and
\* its verified flag, not on the record's age or attempts: once a reset record
\* has been verified, completion succeeds at any later time, also more than 10
\* minutes after issuance, as long as the record has not been replaced, expired
\* by a later verify call, or consumed.
C33_VerifiedResetAnyTime ==
    LET email == Lower(ret.id)
    IN  WellFormedReset
            => ret.ok = (/\ email \in DOMAIN pre.reset_data
                         /\ pre.reset_data[email].verified
                         /\ pre.reset_data[email].username \in DOMAIN pre.users)

\* a reset succeeded on a verified record older than the life of its code and
\* with its attempts used up
C33_Witness ==
    /\ WellFormedReset
    /\ ret.ok
    /\ pre.now - pre.reset_data[Lower(ret.id)].timestamp > RESET_TTL_MIN * TicksPerMin
    /\ pre.reset_data[Lower(ret.id)].attempts >= RESET_MAX_ATTEMPTS

\* C34 as stated: operations on different identifiers of the login-attempt
\* store do not interfere, also when they run concurrently: a record_failure
\* for identifier A never loses, overwrites or resurrects the record of a
\* different identifier B.
C34_OtherKeysUntouched ==
    ret.op = "save_login_attempts"
        => \A k \in (DOMAIN attempts \cup DOMAIN pre.attempts) \ {IdentifierKey(ret.id)} :
              /\ k \in DOMAIN attempts
              /\ k \in DOMAIN pre.attempts
              /\ attempts[k] = pre.attempts[k]

\* C35: an authenticate call that ends in any error outcome (invalid input,
\* locked, invalid credentials, account configuration error) leaves the
\* session unchanged; a session already authenticated as some user stays
\* authenticated as that same user.
C35_ErrorKeepsSession ==
    (ret.op = "authenticate_user" /\ ~ret.ok)
        => /\ ret.msg \in {"InvalidInput", "Locked", "InvalidCredentials", "InvalidPassword",
                           "LockedFor", "ConfigError"}
           /\ session = pre.session

\* the failure that set the lock on a user's name came from the session in
\* which that user was logged in
C35_Witness ==
    /\ ret.op = "authenticate_user"
    /\ ret.msg = "LockedFor"
    /\ pre.session.authenticated
    /\ session.authenticated
    /\ Lower(session.current_user) = Lower(Strip(ret.id))

\* C36: through authenticate calls executed one at a time, in any order and at
\* any times, the count of every login-attempt record stays between 1 and 5:
\* a locked identifier records no further failures, and an expired lock is
\* cleared before the next failure is counted.
C36_CountWithinOneAndFive ==
    /\ \A k \in DOMAIN attempts :
          attempts[k].count >= 1 /\ attempts[k].count <= MAX_LOGIN_ATTEMPTS
    /\ (ret.op = "authenticate_user" /\ ret.id # <<>> /\ ret.pw # <<>>)
          => LET k == IdentifierKey(Strip(ret.id))
             IN  /\ LockRunning(pre.attempts, Strip(ret.id), pre.now)
                       => attempts = pre.attempts
                 /\ (/\ k \in DOMAIN pre.attempts
                     /\ pre.attempts[k].locked_until # Null
                     /\ ~LockRunning(pre.attempts, Strip(ret.id), pre.now)
                     /\ k \in DOMAIN attempts)
                       => attempts[k].count = 1

\* a failed login on an identifier whose lock had expired was counted as the
\* first one, the clock having moved while the call ran
C36_Witness ==
    LET k == IdentifierKey(Strip(ret.id))
    IN  /\ ret.op = "authenticate_user"
        /\ k \in DOMAIN pre.attempts
        /\ pre.attempts[k].count = MAX_LOGIN_ATTEMPTS
        /\ k \in DOMAIN attempts
        /\ attempts[k].count = 1
        /\ attempts[k].last_attempt > pre.now

\* C37 as stated: each call uses a single captured instant: within one
\* is_locked call the decision and the remaining minutes are computed from the
\* same now, and within one record_failure call locked_until is last_attempt
\* plus exactly 15 minutes, also when the clock advances while the call runs.
C37_SingleInstant ==
    LET k == IdentifierKey(ret.id)
    IN  /\ (ret.op = "is_account_locked" /\ ret.ok)
              => \E t \in pre.now..now :
                    /\ t < pre.attempts[k].locked_until
                    /\ ret.n = TruncDiv(pre.attempts[k].locked_until - t, TicksPerMin) + 1
        /\ (/\ ret.op = "record_failed_login"
            /\ ret.id # <<>>
            /\ attempts[k].locked_until # Null)
              => attempts[k].locked_until = attempts[k].last_attempt + LockTicks

\* C38: in every state reachable by authenticate and logout calls from the
\* initial session, authenticated is true if and only if current_user is
\* non-null, and when it is true current_user is a key of the user store.
C38_AuthenticatedIffNamed ==
    /\ session.authenticated <=> session.current_user # NullStr
    /\ session.authenticated => session.current_user \in DOMAIN users

\* a login made in a session that was authenticated as another user
C38_Witness ==
    /\ ret.op = "authenticate_user"
    /\ ret.ok
    /\ pre.session.authenticated
    /\ session.authenticated
    /\ session.current_user # pre.session.current_user

\* C7 as stated: no failed login is lost however the calls interleave: once
\* every caller has returned, the stored count of a key is the number of
\* record_failed_login calls made for it, and 5 calls have set the lock.
C7_NoFailureLost ==
    (\A c \in Callers : pc[c] = "idle")
        => \A k \in DOMAIN hist.calls :
              /\ k \in DOMAIN attempts
              /\ attempts[k].count = hist.calls[k]
              /\ hist.calls[k] >= MAX_LOGIN_ATTEMPTS => attempts[k].locked_until # Null

====
